---------------------------- MODULE Spec2Model ----------------------------
(***************************************************************************)
(* A model of the Song value object of src/core/song.cpp: the shared       *)
(* payload Song::Private behind copy-on-write handles, the setters and     *)
(* initializers, the derived values, the comparison predicates and the    *)
(* relational / wire marshalling adapters.                                 *)
(*                                                                         *)
(* A QString is a sequence of characters (<<>> is the empty string; the    *)
(* null QString compares equal to the empty one and is not told apart).    *)
(* A std::string of the wire message is a sequence of bytes.               *)
(***************************************************************************)
EXTENDS Integers, Sequences, FiniteSets, TLC

VARIABLES
  d,        \* handle -> payload id, or NoSong for an empty slot
  heap,     \* payload id -> Song::Private record, or Nil when free
  shadow,   \* handle -> the record a deep-copying Song would hold
  origin,   \* handle -> how the Song in the slot came to its value
  query,    \* the values BindToQuery bound to the QSqlQuery, or Nil
  pb,       \* the pb::tagreader::SongMetadata last serialized, or Nil
  mtp_track, \* the LIBMTP_track_t last filled by ToMTP, or Nil
  cache,    \* the cover hashes for which a file exists in ImageCacheDir()
  last      \* the last call made: its name, handle, arguments and result

vars == <<d, heap, shadow, origin, query, pb, mtp_track, cache, last>>

Nil    == [none |-> TRUE]    \* no record
NoSong == 0                  \* no payload: the slot holds no Song

\* ------------------------------------------------------------------ bounds

NumHandles == 2      \* Song objects alive at once
MaxInt     == 2      \* largest integer handed to a setter or held by a column

Handles    == 1..NumHandles
PayloadIds == 1..NumHandles
\* the two slots that the calls on one Song and on a pair of Songs use
A == CHOOSE h \in Handles : \A g \in Handles : h <= g
B == A + 1

Max(a, b) == IF a >= b THEN a ELSE b

\* ----------------------------------------------------------------- strings

E == <<>>
isEmpty(s) == s = E

kManuallyUnsetCover == <<"(unset)">>
kEmbeddedCover      == <<"(embedded)">>

\* Song::FileType, declared in song.h: Type_Unknown is the enumerator 0, the
\* value a null QVariant and an absent message field convert to.
Type_Unknown   == 0
Type_Asf       == 1
Type_Flac      == 2
Type_Mp4       == 3
Type_Mpeg      == 5
Type_OggFlac   == 6
Type_OggSpeex  == 7
Type_OggVorbis == 8
Type_Wav       == 10
Type_Cdda      == 12

\* FileType(int), the cast of a column or of a message field
FileType(n) == n

\* ------------------------------------------------------ Song::Private

\* What an int member the constructor never initializes may hold.
Indeterminate == {-1, 0}

\* Song::Private::Private(): every member the initializer list names gets its
\* value; bitdepth_ is not in the list and is left indeterminate (g).
NewPrivate(g) ==
  [ valid |-> FALSE, id |-> -1, album_id |-> -1,
    title |-> E, album |-> E, artist |-> E, albumartist |-> E,
    track |-> -1, disc |-> -1, year |-> -1, originalyear |-> -1,
    genre |-> E, compilation |-> FALSE,
    composer |-> E, performer |-> E, grouping |-> E, comment |-> E,
    beginning |-> 0, end |-> -1,
    bitrate |-> -1, samplerate |-> -1, bitdepth |-> g,
    directory_id |-> -1, basefilename |-> E, url |-> E,
    filetype |-> Type_Unknown, filesize |-> -1, mtime |-> -1, ctime |-> -1,
    unavailable |-> FALSE,
    playcount |-> 0, skipcount |-> 0, lastplayed |-> -1,
    compilation_detected |-> FALSE, compilation_on |-> FALSE,
    compilation_off |-> FALSE,
    art_automatic |-> E, art_manual |-> E, cue_path |-> E,
    init_from_file |-> FALSE, suspicious_tags |-> FALSE ]

\* ------------------------------------------------------- handles, sharing

Live(h)  == d[h] # NoSong
Val(h)   == heap[d[h]]
RefCount(p) == Cardinality({h \in Handles : d[h] = p})
FreeIds  == {p \in PayloadIds : heap[p] = Nil}
NewId    == CHOOSE p \in FreeIds : \A q \in FreeIds : p <= q

\* The heap once handle h lets go of its payload: the payload is freed when h
\* held the last reference.
Released(h) ==
  IF Live(h) /\ RefCount(d[h]) = 1 THEN [heap EXCEPT ![d[h]] = Nil] ELSE heap

\* A write that does not detach: it lands in the payload as shared.
Write_InPlace(h, s) ==
  /\ d' = d
  /\ heap' = [heap EXCEPT ![d[h]] = s]

\* A write of record s through handle h. The non-const d-> of a
\* QSharedDataPointer detaches first: a payload that other handles share is
\* cloned and h alone points at the clone, which receives the write.
Write(h, s) ==
  IF RefCount(d[h]) > 1
  THEN /\ d' = [d EXCEPT ![h] = NewId]
       /\ heap' = [heap EXCEPT ![NewId] = s]
  ELSE /\ d' = d
       /\ heap' = [heap EXCEPT ![d[h]] = s]

\* A mutating member call on handle h that leaves record s. A Song that was
\* as default-constructed is from then on `how`: "wire" once InitFromProtobuf
\* filled it, "row" once InitFromQuery did, "written" after any other
\* call; a further call of any kind makes it "written".
Populate(h, s, call, how) ==
  /\ Live(h)
  /\ Write(h, s)
  /\ shadow' = [shadow EXCEPT ![h] = s]
  /\ origin' = [origin EXCEPT
                  ![h] = IF origin[h] = "default" THEN how ELSE "written"]
  /\ last' = call
  /\ UNCHANGED <<query, pb, mtp_track, cache>>

Mutate(h, s, call) == Populate(h, s, call, "written")

\* A const member call on handle h returning r.
Observe(h, call) ==
  /\ Live(h)
  /\ last' = call
  /\ UNCHANGED <<d, heap, shadow, origin, query, pb, mtp_track, cache>>

NoCall == [op |-> "none"]

\* Song::Song()
Construct(h) ==
  /\ ~Live(h)
  /\ \E g \in Indeterminate :
       /\ d' = [d EXCEPT ![h] = NewId]
       /\ heap' = [heap EXCEPT ![NewId] = NewPrivate(g)]
       /\ shadow' = [shadow EXCEPT ![h] = NewPrivate(g)]
  /\ origin' = [origin EXCEPT ![h] = "default"]
  /\ last' = [op |-> "Song", h |-> h]
  /\ UNCHANGED <<query, pb, mtp_track, cache>>

\* Song::Song(const Song &other)
CopyConstruct(h, o) ==
  /\ ~Live(h) /\ Live(o)
  /\ d' = [d EXCEPT ![h] = d[o]]
  /\ shadow' = [shadow EXCEPT ![h] = shadow[o]]
  /\ origin' = [origin EXCEPT ![h] = origin[o]]
  /\ last' = [op |-> "Song(copy)", h |-> h, o |-> o]
  /\ UNCHANGED <<heap, query, pb, mtp_track, cache>>

\* Song::~Song()
Destroy(h) ==
  /\ Live(h)
  /\ heap' = Released(h)
  /\ d' = [d EXCEPT ![h] = NoSong]
  /\ shadow' = [shadow EXCEPT ![h] = Nil]
  /\ origin' = [origin EXCEPT ![h] = "none"]
  /\ last' = [op |-> "~Song", h |-> h]
  /\ UNCHANGED <<query, pb, mtp_track, cache>>

\* Song::operator=
OpAssign(h, o) ==
  /\ Live(h) /\ Live(o)
  /\ heap' = (IF d[h] = d[o] THEN heap ELSE Released(h))
  /\ d' = [d EXCEPT ![h] = d[o]]
  /\ shadow' = [shadow EXCEPT ![h] = shadow[o]]
  /\ origin' = [origin EXCEPT ![h] = origin[o]]
  /\ last' = [op |-> "operator=", h |-> h, o |-> o]
  /\ UNCHANGED <<query, pb, mtp_track, cache>>

\* ---------------------------------------------------------------- getters

\* is_compilation with the user's "on" override taking precedence over "off"
is_compilation_OnWins(s) ==
  ((s.compilation \/ s.compilation_detected) /\ ~s.compilation_off)
    \/ s.compilation_on

is_compilation(s) ==
  (s.compilation \/ s.compilation_detected \/ s.compilation_on)
    /\ ~s.compilation_off

\* ---------------------------------------------------------------- setters

set_compilation(s, v)          == [s EXCEPT !.compilation = v]
set_compilation_detected(s, v) == [s EXCEPT !.compilation_detected = v]
set_compilation_on(s, v)       == [s EXCEPT !.compilation_on = v]
set_compilation_off(s, v)      == [s EXCEPT !.compilation_off = v]

set_id(s, v)       == [s EXCEPT !.id = v]

set_beginning_nanosec(s, v) == [s EXCEPT !.beginning = Max(0, v)]
set_end_nanosec(s, v)       == [s EXCEPT !.end = v]
\* set_length_nanosec that forgets the beginning
set_length_nanosec_FromZero(s, v) == [s EXCEPT !.end = v]
set_length_nanosec(s, v)    == [s EXCEPT !.end = s.beginning + v]

beginning_nanosec(s) == s.beginning
end_nanosec(s)       == s.end
length_nanosec(s)    == s.end - s.beginning
bitdepth(s)          == s.bitdepth
is_valid(s)          == s.valid

\* Song::set_url. Application::kIsPortable is false in a regular build, and
\* the locator is then stored as given.
set_url(s, v) == [s EXCEPT !.url = v]

\* Song::Init(title, artist, album, length_nanosec)
Init4(s, title, artist, album, length) ==
  set_length_nanosec(
    [s EXCEPT !.valid = TRUE, !.title = title, !.artist = artist,
              !.album = album],
    length)

\* Song::Init(title, artist, album, beginning, end)
Init5(s, title, artist, album, beginning, end) ==
  [s EXCEPT !.valid = TRUE, !.title = title, !.artist = artist,
            !.album = album, !.beginning = beginning, !.end = end]

\* ------------------------------------------------------ string conversions

\* Characters of a QString: ASCII letters and words, one letter outside
\* ASCII ("u") and U+FFFD, the replacement character. Bytes of a std::string:
\* the ASCII tokens themselves, the two bytes "c3" "bc" that encode the
\* non-ASCII letter, one token for the three bytes that encode U+FFFD, and
\* "ff", a byte that is never valid UTF-8.
RECURSIVE toUtf8(_)
toUtf8(s) ==
  IF s = <<>> THEN <<>>
  ELSE (CASE Head(s) = "u"      -> <<"c3", "bc">>
          [] Head(s) = "U+FFFD" -> <<"efbfbd">>
          [] OTHER              -> <<Head(s)>>) \o toUtf8(Tail(s))

\* QString::fromUtf8: a well-formed sequence decodes to its character, any
\* other byte decodes to U+FFFD.
RECURSIVE fromUtf8(_)
fromUtf8(b) ==
  IF b = <<>> THEN <<>>
  ELSE IF Len(b) >= 2 /\ b[1] = "c3" /\ b[2] = "bc"
       THEN <<"u">> \o fromUtf8(Tail(Tail(b)))
  ELSE IF Head(b) \notin {"c3", "bc", "ff", "efbfbd"}
       THEN <<Head(b)>> \o fromUtf8(Tail(b))
  ELSE IF Head(b) = "efbfbd"
       THEN <<"U+FFFD">> \o fromUtf8(Tail(b))
  ELSE <<"U+FFFD">> \o fromUtf8(Tail(b))

\* QStringFromStdString that takes each byte for a character
QStringFromStdString_Latin1(b) == b

QStringFromStdString(b)     == fromUtf8(b)
DataCommaSizeFromQString(s) == toUtf8(s)

\* QUrl::toEncoded and QUrl::fromEncoded: a QUrl is the sequence of its
\* characters, led by its scheme; a letter outside ASCII is percent-encoded.
RECURSIVE toEncoded(_)
toEncoded(u) ==
  IF u = <<>> THEN <<>>
  ELSE (IF Head(u) = "u" THEN <<"%C3", "%BC">> ELSE <<Head(u)>>)
         \o toEncoded(Tail(u))

RECURSIVE fromEncoded(_)
fromEncoded(b) ==
  IF b = <<>> THEN <<>>
  ELSE IF Len(b) >= 2 /\ b[1] = "%C3" /\ b[2] = "%BC"
       THEN <<"u">> \o fromEncoded(Tail(Tail(b)))
  ELSE <<Head(b)>> \o fromEncoded(Tail(b))

\* ------------------------------------------------------------- cover cache

\* Utilities::Sha1CoverHash(artist, album).toHex(): one token per pair.
Sha1CoverHash(artist, album) == ToString(<<artist, album>>)

\* AlbumCoverLoader::ImageCacheDir() + "/" + hash + ".jpg"
CoverPath(artist, album) ==
  <<"ImageCacheDir/", Sha1CoverHash(artist, album), ".jpg">>

\* InitArtManual that looks at art_manual only
InitArtManual_IgnoresAutomatic(s, files) ==
  IF isEmpty(s.art_manual) /\ Sha1CoverHash(s.artist, s.album) \in files
  THEN [s EXCEPT !.art_manual = CoverPath(s.artist, s.album)]
  ELSE s

\* Song::InitArtManual, with `files` the hashes that have a file in the cache
InitArtManual(s, files) ==
  IF isEmpty(s.art_manual) /\ isEmpty(s.art_automatic)
       /\ Sha1CoverHash(s.artist, s.album) \in files
  THEN [s EXCEPT !.art_manual = CoverPath(s.artist, s.album)]
  ELSE s

\* ------------------------------------------------------------ wire adapter

\* Song::InitFromProtobuf. m is the message: a getter of an absent optional
\* field returns the field's default, the two has_ flags are kept apart.
InitFromProtobuf(s, m, files) ==
  LET s1 == [s EXCEPT
               !.init_from_file = TRUE,
               !.valid = m.valid,
               !.title = QStringFromStdString(m.title),
               !.album = QStringFromStdString(m.album),
               !.artist = QStringFromStdString(m.artist),
               !.albumartist = QStringFromStdString(m.albumartist),
               !.composer = QStringFromStdString(m.composer),
               !.performer = QStringFromStdString(m.performer),
               !.grouping = QStringFromStdString(m.grouping),
               !.track = m.track,
               !.disc = m.disc,
               !.year = m.year,
               !.originalyear = m.originalyear,
               !.genre = QStringFromStdString(m.genre),
               !.comment = QStringFromStdString(m.comment),
               !.compilation = m.compilation,
               !.skipcount = m.skipcount,
               !.lastplayed = m.lastplayed]
      s2 == set_length_nanosec(s1, m.length_nanosec)
      s3 == [s2 EXCEPT
               !.bitrate = m.bitrate,
               !.samplerate = m.samplerate,
               !.bitdepth = m.bitdepth]
      s4 == set_url(s3, fromEncoded(m.url))
      s5 == [s4 EXCEPT
               !.basefilename = QStringFromStdString(m.basefilename),
               !.mtime = m.mtime,
               !.ctime = m.ctime,
               !.filesize = m.filesize,
               !.suspicious_tags = m.suspicious_tags,
               !.filetype = FileType(m.filetype)]
      s6 == IF m.has_art_automatic
            THEN [s5 EXCEPT !.art_automatic = QStringFromStdString(m.art_automatic)]
            ELSE s5
      s7 == IF m.has_playcount THEN [s6 EXCEPT !.playcount = m.playcount] ELSE s6
  IN InitArtManual(s7, files)

\* ToProtobuf that leaves art_automatic out of the message
ToProtobuf_NoArt(s) ==
  [ valid |-> s.valid,
    title |-> DataCommaSizeFromQString(s.title),
    album |-> DataCommaSizeFromQString(s.album),
    artist |-> DataCommaSizeFromQString(s.artist),
    albumartist |-> DataCommaSizeFromQString(s.albumartist),
    composer |-> DataCommaSizeFromQString(s.composer),
    performer |-> DataCommaSizeFromQString(s.performer),
    grouping |-> DataCommaSizeFromQString(s.grouping),
    track |-> s.track,
    disc |-> s.disc,
    year |-> s.year,
    originalyear |-> s.originalyear,
    genre |-> DataCommaSizeFromQString(s.genre),
    comment |-> DataCommaSizeFromQString(s.comment),
    compilation |-> s.compilation,
    has_playcount |-> TRUE,
    playcount |-> s.playcount,
    skipcount |-> s.skipcount,
    lastplayed |-> s.lastplayed,
    length_nanosec |-> length_nanosec(s),
    bitrate |-> s.bitrate,
    samplerate |-> s.samplerate,
    bitdepth |-> s.bitdepth,
    url |-> toEncoded(s.url),
    basefilename |-> DataCommaSizeFromQString(s.basefilename),
    mtime |-> s.mtime,
    ctime |-> s.ctime,
    filesize |-> s.filesize,
    suspicious_tags |-> s.suspicious_tags,
    has_art_automatic |-> FALSE,
    art_automatic |-> <<>>,
    filetype |-> s.filetype ]

\* Song::ToProtobuf
ToProtobuf(s) ==
  [ valid |-> s.valid,
    title |-> DataCommaSizeFromQString(s.title),
    album |-> DataCommaSizeFromQString(s.album),
    artist |-> DataCommaSizeFromQString(s.artist),
    albumartist |-> DataCommaSizeFromQString(s.albumartist),
    composer |-> DataCommaSizeFromQString(s.composer),
    performer |-> DataCommaSizeFromQString(s.performer),
    grouping |-> DataCommaSizeFromQString(s.grouping),
    track |-> s.track,
    disc |-> s.disc,
    year |-> s.year,
    originalyear |-> s.originalyear,
    genre |-> DataCommaSizeFromQString(s.genre),
    comment |-> DataCommaSizeFromQString(s.comment),
    compilation |-> s.compilation,
    has_playcount |-> TRUE,
    playcount |-> s.playcount,
    skipcount |-> s.skipcount,
    lastplayed |-> s.lastplayed,
    length_nanosec |-> length_nanosec(s),
    bitrate |-> s.bitrate,
    samplerate |-> s.samplerate,
    bitdepth |-> s.bitdepth,
    url |-> toEncoded(s.url),
    basefilename |-> DataCommaSizeFromQString(s.basefilename),
    mtime |-> s.mtime,
    ctime |-> s.ctime,
    filesize |-> s.filesize,
    suspicious_tags |-> s.suspicious_tags,
    has_art_automatic |-> TRUE,
    art_automatic |-> DataCommaSizeFromQString(s.art_automatic),
    filetype |-> s.filetype ]

\* -------------------------------------------------------------- grouping

cue_path(s) == s.cue_path
has_cue(s)  == ~isEmpty(s.cue_path)
album(s)    == s.album

effective_album(s) == IF isEmpty(s.album) THEN s.title ELSE s.album
effective_albumartist(s) ==
  IF isEmpty(s.albumartist) THEN s.artist ELSE s.albumartist

\* effective_originalyear that takes an original year of 0 for unset
effective_originalyear_Positive(s) ==
  IF s.originalyear <= 0 THEN s.year ELSE s.originalyear

effective_originalyear(s) ==
  IF s.originalyear < 0 THEN s.year ELSE s.originalyear

\* IsOnSameAlbum that compares the album tags and not the effective albums
IsOnSameAlbum_AlbumTag(s, other) ==
  IF is_compilation(s) # is_compilation(other) THEN FALSE
  ELSE IF has_cue(s) /\ has_cue(other) /\ cue_path(s) = cue_path(other) THEN TRUE
  ELSE IF is_compilation(s) /\ album(s) = album(other) THEN TRUE
  ELSE /\ album(s) = album(other)
       /\ effective_albumartist(s) = effective_albumartist(other)

\* IsOnSameAlbum in which a Song of a CUE sheet groups by its CUE path alone
IsOnSameAlbum_CueOnly(s, other) ==
  IF is_compilation(s) # is_compilation(other) THEN FALSE
  ELSE IF has_cue(s) \/ has_cue(other) THEN cue_path(s) = cue_path(other)
  ELSE IF is_compilation(s) /\ album(s) = album(other) THEN TRUE
  ELSE /\ effective_album(s) = effective_album(other)
       /\ effective_albumartist(s) = effective_albumartist(other)

\* IsOnSameAlbum without the test that both or neither is a compilation
IsOnSameAlbum_LeftOnly(s, other) ==
  IF has_cue(s) /\ has_cue(other) /\ cue_path(s) = cue_path(other) THEN TRUE
  ELSE IF is_compilation(s) /\ album(s) = album(other) THEN TRUE
  ELSE /\ effective_album(s) = effective_album(other)
       /\ effective_albumartist(s) = effective_albumartist(other)

\* Song::IsOnSameAlbum
IsOnSameAlbum(s, other) ==
  IF is_compilation(s) # is_compilation(other) THEN FALSE
  ELSE IF has_cue(s) /\ has_cue(other) /\ cue_path(s) = cue_path(other) THEN TRUE
  ELSE IF is_compilation(s) /\ album(s) = album(other) THEN TRUE
  ELSE /\ effective_album(s) = effective_album(other)
       /\ effective_albumartist(s) = effective_albumartist(other)

\* Song::AlbumKey: QString("%1|%2|%3").arg(a, b, c)
AlbumKey(s) ==
  (IF is_compilation(s) THEN <<"_compilation">> ELSE effective_albumartist(s))
    \o <<"|">> \o (IF has_cue(s) THEN cue_path(s) ELSE E)
    \o <<"|">> \o effective_album(s)

\* Song::IsMetadataEqual
IsMetadataEqual(s, other) ==
  /\ s.title = other.title
  /\ s.album = other.album
  /\ s.artist = other.artist
  /\ s.albumartist = other.albumartist
  /\ s.composer = other.composer
  /\ s.performer = other.performer
  /\ s.grouping = other.grouping
  /\ s.track = other.track
  /\ s.disc = other.disc
  /\ s.year = other.year
  /\ s.originalyear = other.originalyear
  /\ s.genre = other.genre
  /\ s.comment = other.comment
  /\ s.compilation = other.compilation
  /\ s.beginning = other.beginning
  /\ length_nanosec(s) = length_nanosec(other)
  /\ s.bitrate = other.bitrate
  /\ s.samplerate = other.samplerate
  /\ s.bitdepth = other.bitdepth
  /\ s.art_automatic = other.art_automatic
  /\ s.art_manual = other.art_manual
  /\ s.cue_path = other.cue_path

\* ------------------------------------------------------ relational adapter

kColumns ==
  << "title", "album", "artist", "albumartist", "track", "disc", "year",
     "originalyear", "genre", "compilation", "composer", "performer",
     "grouping", "comment",
     "beginning", "length",
     "bitrate", "samplerate", "bitdepth",
     "directory_id", "filename", "filetype", "filesize", "mtime", "ctime",
     "unavailable",
     "playcount", "skipcount", "lastplayed",
     "compilation_detected", "compilation_on", "compilation_off",
     "compilation_effective",
     "art_automatic", "art_manual",
     "effective_albumartist", "effective_originalyear",
     "cue_path" >>

\* A QVariant: null, an integer or a string.
QNull   == [k |-> "null"]
QInt(n) == [k |-> "int", v |-> n]
QStr(x) == [k |-> "str", v |-> x]

isNull(q)     == q.k = "null"
toInt(q)      == IF q.k = "int" THEN q.v ELSE 0
toLongLong(q) == toInt(q)
toBool(q)     == CASE q.k = "int" -> q.v # 0
                   [] q.k = "str" -> q.v # E
                   [] OTHER       -> FALSE
toString(q)   == CASE q.k = "str" -> q.v
                   [] q.k = "int" -> <<ToString(q.v)>>
                   [] OTHER       -> E

\* the macros of InitFromQuery
\* toint that reads NULL as 0, as QVariant::toInt does
toint_ZeroForNull(q) == toInt(q)

tostr(q)      == IF isNull(q) THEN E ELSE toString(q)
toint(q)      == IF isNull(q) THEN -1 ELSE toInt(q)
tolonglong(q) == IF isNull(q) THEN -1 ELSE toLongLong(q)

\* notnullintval that binds the sentinel itself
notnullintval_Sentinel(x) == QInt(x)

\* the macros of BindToQuery
strval(x)        == QStr(x)
intval(x)        == QInt(IF x <= 0 THEN -1 ELSE x)
notnullintval(x) == IF x = -1 THEN QNull ELSE QInt(x)
boolval(b)       == QInt(IF b THEN 1 ELSE 0)

\* QFileInfo(url.toLocalFile()).fileName(): the path of a file: locator, which
\* holds no directory separator here; empty for any other scheme.
LocalFileName(u) == IF u # E /\ Head(u) = "file:" THEN Tail(u) ELSE E

\* Song::BindToQuery: the value bound to each placeholder
BindToQuery(s) ==
  [ title |-> strval(s.title),
    album |-> strval(s.album),
    artist |-> strval(s.artist),
    albumartist |-> strval(s.albumartist),
    track |-> intval(s.track),
    disc |-> intval(s.disc),
    year |-> intval(s.year),
    originalyear |-> intval(s.originalyear),
    genre |-> strval(s.genre),
    compilation |-> boolval(s.compilation),
    composer |-> strval(s.composer),
    performer |-> strval(s.performer),
    grouping |-> strval(s.grouping),
    comment |-> strval(s.comment),
    beginning |-> QInt(s.beginning),
    length |-> intval(length_nanosec(s)),
    bitrate |-> intval(s.bitrate),
    samplerate |-> intval(s.samplerate),
    bitdepth |-> intval(s.bitdepth),
    directory_id |-> notnullintval(s.directory_id),
    filename |-> QStr(toEncoded(s.url)),
    filetype |-> QInt(s.filetype),
    filesize |-> notnullintval(s.filesize),
    mtime |-> notnullintval(s.mtime),
    ctime |-> notnullintval(s.ctime),
    unavailable |-> boolval(s.unavailable),
    playcount |-> QInt(s.playcount),
    skipcount |-> QInt(s.skipcount),
    lastplayed |-> intval(s.lastplayed),
    compilation_detected |-> boolval(s.compilation_detected),
    compilation_on |-> boolval(s.compilation_on),
    compilation_off |-> boolval(s.compilation_off),
    compilation_effective |-> boolval(is_compilation(s)),
    art_automatic |-> QStr(s.art_automatic),
    art_manual |-> QStr(s.art_manual),
    effective_albumartist |-> QStr(effective_albumartist(s)),
    effective_originalyear |-> intval(effective_originalyear(s)),
    cue_path |-> QStr(s.cue_path) ]

\* The if / else-if chain with a branch that reads effective_albumartist
ReadColumn_ReadsProjection(s, c, v) ==
  IF c = "effective_albumartist"
  THEN [s EXCEPT !.albumartist = tostr(v)]
  ELSE IF c = "compilation_effective"
  THEN [s EXCEPT !.compilation = toBool(v)]
  ELSE s

\* One branch of the if / else-if chain of InitFromQuery: the field that the
\* column named c receives from the QVariant v.
ReadColumn(s, c, v) ==
  CASE c = "title"        -> [s EXCEPT !.title = tostr(v)]
    [] c = "album"        -> [s EXCEPT !.album = tostr(v)]
    [] c = "artist"       -> [s EXCEPT !.artist = tostr(v)]
    [] c = "albumartist"  -> [s EXCEPT !.albumartist = tostr(v)]
    [] c = "track"        -> [s EXCEPT !.track = toint(v)]
    [] c = "disc"         -> [s EXCEPT !.disc = toint(v)]
    [] c = "year"         -> [s EXCEPT !.year = toint(v)]
    [] c = "originalyear" -> [s EXCEPT !.originalyear = toint(v)]
    [] c = "genre"        -> [s EXCEPT !.genre = tostr(v)]
    [] c = "compilation"  -> [s EXCEPT !.compilation = toBool(v)]
    [] c = "composer"     -> [s EXCEPT !.composer = tostr(v)]
    [] c = "performer"    -> [s EXCEPT !.performer = tostr(v)]
    [] c = "grouping"     -> [s EXCEPT !.grouping = tostr(v)]
    [] c = "comment"      -> [s EXCEPT !.comment = tostr(v)]
    [] c = "beginning"    ->
         [s EXCEPT !.beginning = IF isNull(v) THEN 0 ELSE toLongLong(v)]
    [] c = "length"       -> set_length_nanosec(s, tolonglong(v))
    [] c = "bitrate"      -> [s EXCEPT !.bitrate = toint(v)]
    [] c = "samplerate"   -> [s EXCEPT !.samplerate = toint(v)]
    [] c = "bitdepth"     -> [s EXCEPT !.bitdepth = toint(v)]
    [] c = "directory_id" -> [s EXCEPT !.directory_id = toint(v)]
    [] c = "filename"     ->
         LET t == set_url(s, fromEncoded(toUtf8(tostr(v))))
         IN [t EXCEPT !.basefilename = LocalFileName(t.url)]
    [] c = "filetype"     -> [s EXCEPT !.filetype = FileType(toInt(v))]
    [] c = "filesize"     -> [s EXCEPT !.filesize = toint(v)]
    [] c = "mtime"        -> [s EXCEPT !.mtime = toint(v)]
    [] c = "ctime"        -> [s EXCEPT !.ctime = toint(v)]
    [] c = "unavailable"  -> [s EXCEPT !.unavailable = toBool(v)]
    [] c = "playcount"    ->
         [s EXCEPT !.playcount = IF isNull(v) THEN 0 ELSE toInt(v)]
    [] c = "skipcount"    ->
         [s EXCEPT !.skipcount = IF isNull(v) THEN 0 ELSE toInt(v)]
    [] c = "lastplayed"   -> [s EXCEPT !.lastplayed = toint(v)]
    [] c = "compilation_detected" ->
         [s EXCEPT !.compilation_detected = toBool(v)]
    [] c = "compilation_on"  -> [s EXCEPT !.compilation_on = toBool(v)]
    [] c = "compilation_off" -> [s EXCEPT !.compilation_off = toBool(v)]
    [] c = "compilation_effective"  -> s
    [] c = "art_automatic" -> [s EXCEPT !.art_automatic = toString(v)]
    [] c = "art_manual"    -> [s EXCEPT !.art_manual = toString(v)]
    [] c = "effective_albumartist"  -> s
    [] c = "effective_originalyear" -> s
    [] c = "cue_path"      -> [s EXCEPT !.cue_path = tostr(v)]
    [] OTHER               -> s

\* The loop of InitFromQuery breaking one column early
RECURSIVE ReadColumns_BreaksEarly(_, _, _, _)
ReadColumns_BreaksEarly(s, q, col, i) ==
  IF i > Len(kColumns) \/ col + i + 1 >= Len(q)
  THEN s
  ELSE ReadColumns_BreaksEarly(ReadColumn(s, kColumns[i], q[col + i + 1]),
                               q, col, i + 1)

\* The loop of InitFromQuery from kColumns[i] on. q is the SqlRow, whose
\* columns_ are numbered from 0: q.value(n) is q[n + 1]. Column i of kColumns
\* is read from position x = col + i, and the loop breaks at the first x that
\* the row does not hold.
RECURSIVE ReadColumns(_, _, _, _)
ReadColumns(s, q, col, i) ==
  IF i > Len(kColumns) \/ col + i >= Len(q)
  THEN s
  ELSE ReadColumns(ReadColumn(s, kColumns[i], q[col + i + 1]), q, col, i + 1)

\* Song::InitFromQuery
InitFromQuery(s, q, reliable_metadata, col, files) ==
  LET s1 == [s EXCEPT !.id = toint(q[col + 1])]
      s2 == ReadColumns(s1, q, col, 1)
      s3 == [s2 EXCEPT !.valid = TRUE, !.init_from_file = reliable_metadata]
  IN InitArtManual(s3, files)

\* The row that "SELECT ROWID, <kColumnSpec>" returns for a record stored
\* with the bound values b under row id n.
SqlRow(n, b) == <<QInt(n)>> \o [i \in 1..Len(kColumns) |-> b[kColumns[i]]]

\* set_track, set_disc, set_year, set_originalyear, set_bitrate,
\* set_samplerate, set_bitdepth, set_directory_id, set_filesize, set_mtime,
\* set_ctime, set_lastplayed: each assigns its one member.
SetInt(s, f, v) == [s EXCEPT ![f] = v]

\* ------------------------------------------------- calls on the Song A

Call_set_compilation ==
  \E v \in BOOLEAN :
    Mutate(A, set_compilation(Val(A), v),
           [op |-> "set_compilation", h |-> A, v |-> v])

Call_set_compilation_detected ==
  \E v \in BOOLEAN :
    Mutate(A, set_compilation_detected(Val(A), v),
           [op |-> "set_compilation_detected", h |-> A, v |-> v])

Call_set_compilation_on ==
  \E v \in BOOLEAN :
    Mutate(A, set_compilation_on(Val(A), v),
           [op |-> "set_compilation_on", h |-> A, v |-> v])

Call_set_compilation_off ==
  \E v \in BOOLEAN :
    Mutate(A, set_compilation_off(Val(A), v),
           [op |-> "set_compilation_off", h |-> A, v |-> v])

Call_is_compilation ==
  Observe(A, [op |-> "is_compilation", h |-> A,
              ret |-> is_compilation(Val(A))])

\* ------------------------------------------------------------ input sets

IntArgs == -MaxInt..MaxInt      \* integers handed to a setter or initializer
\* <<title, artist, album>> handed to Init
Tags    == { <<E, E, E>>, << <<"a">>, <<"b">>, <<"a", "b">> >> }

\* A SongMetadata message with every optional field absent.
DefaultMsg ==
  [ valid |-> FALSE, title |-> <<>>, album |-> <<>>, artist |-> <<>>,
    albumartist |-> <<>>, composer |-> <<>>, performer |-> <<>>,
    grouping |-> <<>>, track |-> 0, disc |-> 0, year |-> 0,
    originalyear |-> 0, genre |-> <<>>, comment |-> <<>>,
    compilation |-> FALSE, has_playcount |-> FALSE, playcount |-> 0,
    skipcount |-> 0, lastplayed |-> 0, length_nanosec |-> 0, bitrate |-> 0,
    samplerate |-> 0, bitdepth |-> 0, url |-> <<>>, basefilename |-> <<>>,
    mtime |-> 0, ctime |-> 0, filesize |-> 0, suspicious_tags |-> FALSE,
    has_art_automatic |-> FALSE, art_automatic |-> <<>>,
    filetype |-> Type_Unknown ]

\* Messages and rows that differ in their timing fields.
TimingMsgs == {[DefaultMsg EXCEPT !.length_nanosec = n] : n \in IntArgs}

\* The columns "beginning" and "length" of a stored row.
TimingColumns ==
  { <<b, l>> : b \in {QNull} \cup {QInt(n) : n \in IntArgs},
               l \in {QNull, QInt(MaxInt)} }

TimingRow(c) ==
  SqlRow(1, [BindToQuery(NewPrivate(-1)) EXCEPT !.beginning = c[1], !.length = c[2]])

\* ---------------------------------------------------- calls on the timing

Call_set_beginning_nanosec ==
  \E v \in IntArgs :
    Mutate(A, set_beginning_nanosec(Val(A), v),
           [op |-> "set_beginning_nanosec", h |-> A, v |-> v])

Call_set_end_nanosec ==
  \E v \in IntArgs :
    Mutate(A, set_end_nanosec(Val(A), v),
           [op |-> "set_end_nanosec", h |-> A, v |-> v])

Call_set_length_nanosec ==
  \E v \in IntArgs :
    Mutate(A, set_length_nanosec(Val(A), v),
           [op |-> "set_length_nanosec", h |-> A, v |-> v, pre |-> Val(A)])

Call_Init4 ==
  \E t \in Tags, length \in IntArgs :
    Mutate(A, Init4(Val(A), t[1], t[2], t[3], length),
           [op |-> "Init4", h |-> A, v |-> length])

Call_Init5 ==
  \E t \in Tags, beginning \in IntArgs, end \in IntArgs :
    Mutate(A, Init5(Val(A), t[1], t[2], t[3], beginning, end),
           [op |-> "Init5", h |-> A, beginning |-> beginning, end |-> end])

Timing_InitFromQuery ==
  \E c \in TimingColumns :
    Mutate(A, InitFromQuery(Val(A), TimingRow(c), TRUE, 0, cache),
           [op |-> "InitFromQuery", h |-> A, beginning |-> c[1], length |-> c[2]])

Timing_InitFromProtobuf ==
  \E m \in TimingMsgs :
    Mutate(A, InitFromProtobuf(Val(A), m, cache),
           [op |-> "InitFromProtobuf", h |-> A, v |-> m.length_nanosec])

\* ------------------------------------- construction, copies and writes

Ids    == {-1, 1}

Call_Song ==
  \E h \in Handles : Construct(h)

Call_SongCopy ==
  \E h \in Handles, o \in Handles : CopyConstruct(h, o)

Call_SongDestroy ==
  \E h \in Handles : Destroy(h)

Call_OpAssign ==
  \E h \in Handles, o \in Handles : OpAssign(h, o)

Call_set_id ==
  \E h \in Handles, v \in Ids :
    Mutate(h, set_id(Val(h), v),
           [op |-> "set_id", h |-> h, v |-> v, shared |-> RefCount(d[h]) > 1])

Call_InitLength ==
  \E h \in Handles :
    Mutate(h, Init4(Val(h), <<"a">>, <<"b">>, <<"a", "b">>, MaxInt),
           [op |-> "Init4", h |-> h, v |-> MaxInt, shared |-> RefCount(d[h]) > 1])

\* ------------------------------------------------ calls on a pair of Songs

\* The tag fields that grouping reads, drawn for each of the two Songs.
GroupingTags ==
  [ album : {E, <<"a">>, <<"b">>}, title : {E, <<"a">>},
    artist : {<<"a">>, <<"b">>}, albumartist : {E, <<"a">>},
    cue_path : {E, <<"c">>, <<"d">>}, compilation : BOOLEAN ]

\* A Song read from tags t: valid, with the fields of t.
Tagged(t) ==
  [NewPrivate(-1) EXCEPT
     !.valid = TRUE, !.album = t.album, !.title = t.title,
     !.artist = t.artist, !.albumartist = t.albumartist,
     !.cue_path = t.cue_path, !.compilation = t.compilation]

Call_IsOnSameAlbum ==
  \E h \in {A, B}, o \in {A, B} :
    Observe(h, [op |-> "IsOnSameAlbum", h |-> h, o |-> o,
                ret |-> IsOnSameAlbum(Val(h), Val(o))])

Call_AlbumKey ==
  \E h \in {A, B} :
    Observe(h, [op |-> "AlbumKey", h |-> h, ret |-> AlbumKey(Val(h))])

\* ------------------------------------------- calls through the adapters

MaxFieldsSet == 1    \* int fields of A that setters move off their default

\* The int fields with the -1 sentinel that the relational adapter carries;
\* the wire adapter carries all of them but directory_id.
RowIntFields ==
  {"track", "disc", "year", "originalyear", "bitrate", "samplerate",
   "bitdepth", "filesize", "mtime", "ctime", "lastplayed", "directory_id"}
WireIntFields == RowIntFields \ {"directory_id"}

\* Messages of the tag reader: text that is ASCII, non-ASCII or not UTF-8,
\* the optional art_automatic and playcount present or absent.
WireMsgs ==
  { [DefaultMsg EXCEPT
       !.valid = TRUE, !.title = t, !.artist = a,
       !.track = n, !.bitdepth = n, !.length_nanosec = n, !.year = -1,
       !.has_art_automatic = art[1], !.art_automatic = art[2],
       !.has_playcount = pc[1], !.playcount = pc[2]] :
      t \in {<<>>, <<"a">>, <<"ff">>, <<"c3", "bc">>},
      a \in {<<>>, <<"b">>},
      n \in {0, MaxInt},
      art \in {<<FALSE, <<>>>>, <<TRUE, <<>>>>, <<TRUE, <<"a">>>>},
      pc \in {<<FALSE, 0>>, <<TRUE, 0>>, <<TRUE, MaxInt>>} }

\* The cover hashes that may have a file in the cache directory.
CoverFiles == {Sha1CoverHash(a, E) : a \in {E, <<"b">>}}

NothingSerialized == query = Nil /\ pb = Nil
  /\ mtp_track = Nil

\* A setter of A moves one int field, of at most MaxFieldsSet fields.
Adapter_SetInt ==
  \E f \in RowIntFields, v \in -1..MaxInt :
    /\ NothingSerialized
    /\ origin[A] \in {"default", "written"}
    /\ LET moved == {g \in RowIntFields \ {"bitdepth"} : Val(A)[g] # -1}
       IN f \in moved \/ Cardinality(moved) < MaxFieldsSet
    /\ Mutate(A, SetInt(Val(A), f, v), [op |-> "SetInt", h |-> A, f |-> f, v |-> v])

\* The tag reader's message fills the fresh Song A.
Adapter_ReadMessage ==
  \E m \in WireMsgs :
    /\ NothingSerialized
    /\ origin[A] = "default"
    /\ Populate(A, InitFromProtobuf(Val(A), m, cache),
                [op |-> "InitFromProtobuf", h |-> A], "wire")

\* A is stored: query holds the bound values, the Song they were taken from
\* and how that Song came to be.
Adapter_BindToQuery ==
  /\ NothingSerialized
  /\ query' = [b |-> BindToQuery(Val(A)), of |-> Val(A), from |-> origin[A]]
  /\ last' = [op |-> "BindToQuery", h |-> A]
  /\ UNCHANGED <<d, heap, shadow, origin, pb, mtp_track, cache>>

\* A is serialized.
Adapter_ToProtobuf ==
  /\ NothingSerialized
  /\ pb' = [m |-> ToProtobuf(Val(A)), of |-> Val(A), from |-> origin[A]]
  /\ last' = [op |-> "ToProtobuf", h |-> A]
  /\ UNCHANGED <<d, heap, shadow, origin, query, mtp_track, cache>>

\* The stored row is read into the fresh Song B.
Adapter_InitFromQuery ==
  \E reliable_metadata \in BOOLEAN :
    /\ query # Nil
    /\ origin[B] = "default"
    /\ Populate(B, InitFromQuery(Val(B), SqlRow(1, query.b), reliable_metadata, 0, cache),
                [op |-> "InitFromQuery", h |-> B, of |-> query.of,
                 from |-> query.from], "row")

\* The serialized message is read into the fresh Song B.
Adapter_InitFromProtobuf ==
  /\ pb # Nil
  /\ origin[B] = "default"
  /\ Populate(B, InitFromProtobuf(Val(B), pb.m, cache),
              [op |-> "InitFromProtobuf", h |-> B, of |-> pb.of,
               from |-> pb.from, pre |-> Val(B)], "wire")

\* ----------------------------------------------------------- specifications

\* One default-constructed Song in slot A, the other slots empty.
InitOne ==
  /\ \E g \in Indeterminate :
       /\ heap = [p \in PayloadIds |-> IF p = A THEN NewPrivate(g) ELSE Nil]
       /\ shadow = [h \in Handles |-> IF h = A THEN NewPrivate(g) ELSE Nil]
  /\ d = [h \in Handles |-> IF h = A THEN A ELSE NoSong]
  /\ origin = [h \in Handles |-> IF h = A THEN "default" ELSE "none"]
  /\ query = Nil
  /\ pb = Nil
  /\ mtp_track = Nil
  /\ cache = {}
  /\ last = NoCall

\* The compilation flags of one Song.
NextCompilation ==
  \/ Call_set_compilation
  \/ Call_set_compilation_detected
  \/ Call_set_compilation_on
  \/ Call_set_compilation_off
  \/ Call_is_compilation

SpecCompilation == InitOne /\ [][NextCompilation]_vars

\* The beginning and the end of one Song, written by every operation that
\* can write them.
NextTiming ==
  \/ Call_set_beginning_nanosec
  \/ Call_set_end_nanosec
  \/ Call_set_length_nanosec
  \/ Call_Init4
  \/ Call_Init5
  \/ Timing_InitFromQuery
  \/ Timing_InitFromProtobuf

SpecTiming == InitOne /\ [][NextTiming]_vars

\* Song handles that are constructed, copied, assigned, written and destroyed.
Next ==
  \/ Call_Song
  \/ Call_SongCopy
  \/ Call_SongDestroy
  \/ Call_OpAssign
  \/ Call_set_id
  \/ Call_InitLength

Spec == InitOne /\ [][Next]_vars

\* Two Songs A and B with any tags, compared.
InitPair ==
  /\ \E ta \in GroupingTags, tb \in GroupingTags :
       /\ heap = [p \in PayloadIds |->
                    IF p = A THEN Tagged(ta) ELSE IF p = B THEN Tagged(tb) ELSE Nil]
       /\ shadow = [h \in Handles |->
                    IF h = A THEN Tagged(ta) ELSE IF h = B THEN Tagged(tb) ELSE Nil]
  /\ d = [h \in Handles |-> IF h \in {A, B} THEN h ELSE NoSong]
  /\ origin = [h \in Handles |-> IF h \in {A, B} THEN "written" ELSE "none"]
  /\ query = Nil
  /\ pb = Nil
  /\ mtp_track = Nil
  /\ cache = {}
  /\ last = NoCall

NextAlbum ==
  \/ Call_IsOnSameAlbum
  \/ Call_AlbumKey

SpecAlbum == InitPair /\ [][NextAlbum]_vars

\* Two default-constructed Songs A and B and a cover cache.
InitTwo ==
  /\ \E ga \in Indeterminate, gb \in Indeterminate :
       /\ heap = [p \in PayloadIds |->
                    IF p = A THEN NewPrivate(ga)
                    ELSE IF p = B THEN NewPrivate(gb) ELSE Nil]
       /\ shadow = [h \in Handles |->
                    IF h = A THEN NewPrivate(ga)
                    ELSE IF h = B THEN NewPrivate(gb) ELSE Nil]
  /\ d = [h \in Handles |-> IF h \in {A, B} THEN h ELSE NoSong]
  /\ origin = [h \in Handles |-> IF h \in {A, B} THEN "default" ELSE "none"]
  /\ query = Nil
  /\ pb = Nil
  /\ mtp_track = Nil
  /\ cache \in {{}, CoverFiles}
  /\ last = NoCall

\* A is filled by setters or by the tag reader, written through one adapter
\* and read back into B.
NextAdapters ==
  \/ Adapter_SetInt
  \/ Adapter_ReadMessage
  \/ Adapter_BindToQuery
  \/ Adapter_ToProtobuf
  \/ Adapter_InitFromQuery
  \/ Adapter_InitFromProtobuf

SpecAdapters == InitTwo /\ [][NextAdapters]_vars

\* ------------------------------------------- equality, similarity, fields

\* QChar::toLower on the letters that titles hold here: the lowercase
\* mapping of the Unicode character database. "u017f" stands for U+017F,
\* LATIN SMALL LETTER LONG S, which is lowercase already.
toLowerChar(c) ==
  CASE c = "A" -> "a" [] c = "B" -> "b" [] c = "S" -> "s" [] OTHER -> c
toLower(s) == [i \in 1..Len(s) |-> toLowerChar(s[i])]

\* The simple case folding that a case-insensitive comparison applies to
\* each character: U+017F folds to "s".
foldCaseChar(c) == IF c = "u017f" THEN "s" ELSE toLowerChar(c)
foldCase(s) == [i \in 1..Len(s) |-> foldCaseChar(s[i])]

\* QString::compare(other, Qt::CaseInsensitive) == 0
compareCaseInsensitive(a, b) == foldCase(a) = foldCase(b)

\* operator== that compares the locator only
OpEq_UrlOnly(s, other) == s.url = other.url

\* Song::operator==
OpEq(s, other) ==
  s.url = other.url /\ beginning_nanosec(s) = beginning_nanosec(other)

\* IsSimilar that compares with case
IsSimilar_CaseSensitive(s, other) ==
  s.title = other.title /\ s.artist = other.artist

\* Song::IsSimilar
IsSimilar(s, other) ==
  /\ compareCaseInsensitive(s.title, other.title)
  /\ compareCaseInsensitive(s.artist, other.artist)

\* The members that have a setter, by type.
StringFields ==
  {"title", "album", "artist", "albumartist", "genre", "composer",
   "performer", "grouping", "comment", "url", "basefilename",
   "art_automatic", "art_manual", "cue_path"}
IntFields ==
  {"id", "album_id", "track", "disc", "year", "originalyear", "beginning",
   "end", "bitrate", "samplerate", "bitdepth", "directory_id", "filetype",
   "filesize", "mtime", "ctime", "playcount", "skipcount", "lastplayed"}
BoolFields ==
  {"valid", "compilation", "unavailable", "compilation_detected",
   "compilation_on", "compilation_off"}
SetterFields == StringFields \cup IntFields \cup BoolFields

\* set_<f>(v): every setter assigns its one member, set_beginning_nanosec
\* after its clamp.
SetField(s, f, v) ==
  IF f = "beginning" THEN set_beginning_nanosec(s, v) ELSE [s EXCEPT ![f] = v]

\* The values handed to the setter of f.
SetterArgs(f) ==
  CASE f \in {"title", "artist"} -> {<<"a">>, <<"A">>, <<"b">>}
    [] f = "url"           -> {<<"file:", "a">>, <<"file:", "b">>}
    [] f \in StringFields  -> {<<"a">>, <<"b">>}
    [] f \in IntFields     -> 1..MaxInt
    [] OTHER               -> BOOLEAN

\* The fields in which two payloads differ.
Differ(a, b) == {f \in DOMAIN a : a[f] # b[f]}

\* The Songs a pair starts from: B is a copy of A.
PairBases ==
  { NewPrivate(-1),
    [NewPrivate(-1) EXCEPT !.valid = TRUE, !.title = <<"a">>,
                           !.artist = <<"b">>, !.url = <<"file:", "a">>] }

\* A setter of B, called while B still equals A.
Pair_Set ==
  \E f \in SetterFields :
    \E v \in SetterArgs(f) :
      /\ Val(A) = Val(B)
      /\ Mutate(B, SetField(Val(B), f, v),
                [op |-> "set", h |-> B, f |-> f])

\* B = A;
Pair_Assign ==
  /\ Val(A) # Val(B)
  /\ OpAssign(B, A)

Call_OpEq ==
  \E h \in {A, B}, o \in {A, B} :
    Observe(h, [op |-> "operator==", h |-> h, o |-> o,
                ret |-> OpEq(Val(h), Val(o))])

Call_IsSimilar ==
  \E h \in {A, B}, o \in {A, B} :
    Observe(h, [op |-> "IsSimilar", h |-> h, o |-> o,
                ret |-> IsSimilar(Val(h), Val(o))])

Call_IsMetadataEqual ==
  \E h \in {A, B}, o \in {A, B} :
    Observe(h, [op |-> "IsMetadataEqual", h |-> h, o |-> o,
                ret |-> IsMetadataEqual(Val(h), Val(o))])

\* Song A and its copy B, which shares A's payload.
InitCopy ==
  /\ \E s \in PairBases :
       /\ heap = [p \in PayloadIds |-> IF p = A THEN s ELSE Nil]
       /\ shadow = [h \in Handles |-> IF h \in {A, B} THEN s ELSE Nil]
  /\ d = [h \in Handles |-> IF h \in {A, B} THEN A ELSE NoSong]
  /\ origin = [h \in Handles |-> IF h \in {A, B} THEN "written" ELSE "none"]
  /\ query = Nil
  /\ pb = Nil
  /\ mtp_track = Nil
  /\ cache = {}
  /\ last = NoCall

\* One field of the copy is changed and the three predicates compare the two.
NextPredicates ==
  \/ Pair_Set
  \/ Pair_Assign
  \/ Call_OpEq
  \/ Call_IsSimilar
  \/ Call_IsMetadataEqual

SpecPredicates == InitCopy /\ [][NextPredicates]_vars

\* ------------------------------------------------- rows of other shapes

\* The member that InitFromQuery assigns from the column named c; the three
\* projection columns have none.
ColumnField(c) ==
  CASE c = "length"   -> "end"
    [] c = "filename" -> "url"
    [] OTHER          -> c

ProjectionColumns ==
  {"compilation_effective", "effective_albumartist", "effective_originalyear"}

\* The position of column c in kColumns.
ColumnIndex(c) == CHOOSE i \in 1..Len(kColumns) : kColumns[i] = c

\* Songs as the collection stores them: one with every field unset, one whose
\* int fields the setters moved to 0, one with a value in every field.
StoredSongs ==
  LET unset == [NewPrivate(-1) EXCEPT !.valid = TRUE]
      zeroed == [unset EXCEPT
                   !.artist = <<"b">>, !.year = MaxInt,
                   !.track = 0, !.disc = 0, !.originalyear = 0,
                   !.end = 0, !.bitrate = 0, !.samplerate = 0,
                   !.bitdepth = 0, !.lastplayed = 0, !.directory_id = 0,
                   !.filesize = 0, !.mtime = 0, !.ctime = 0]
      full == [unset EXCEPT
                   !.title = <<"t">>, !.album = <<"l">>, !.artist = <<"r">>,
                   !.albumartist = <<"s">>, !.track = 1, !.disc = 2,
                   !.year = 1, !.originalyear = -1, !.genre = <<"g">>,
                   !.compilation = FALSE, !.composer = <<"c">>,
                   !.performer = <<"p">>, !.grouping = <<"o">>,
                   !.comment = <<"m">>, !.beginning = 1, !.end = 3,
                   !.bitrate = 1, !.samplerate = 2, !.bitdepth = 1,
                   !.directory_id = 2, !.url = <<"file:", "a">>,
                   !.basefilename = <<"a">>, !.filetype = Type_Mpeg,
                   !.filesize = 1, !.mtime = 2, !.ctime = 1,
                   !.unavailable = TRUE, !.playcount = 2, !.skipcount = 1,
                   !.lastplayed = 2, !.compilation_detected = FALSE,
                   !.compilation_on = TRUE, !.compilation_off = FALSE,
                   !.art_automatic = kEmbeddedCover,
                   !.art_manual = <<"x">>, !.cue_path = <<"q">>]
  IN {unset, zeroed, full}

\* q.columns_ of the stored row cut after its first n columns of kColumns.
Truncated(q, n) == SubSeq(q, 1, n + 1)

\* q.columns_ of the stored row without its column k of kColumns.
Without(q, k) == SubSeq(q, 1, k) \o SubSeq(q, k + 2, Len(q))

\* q.columns_ of the stored row with a column added before column k.
WithAdded(q, k, v) == SubSeq(q, 1, k) \o <<v>> \o SubSeq(q, k + 1, Len(q))

\* The columns at which a schema change is tried.
ChangedAt == {ColumnIndex(c) : c \in {"title", "track", "beginning", "filetype", "cue_path"}}

\* The stored row is read into the fresh Song B from a result set that holds
\* the first n columns only.
Row_ReadTruncated ==
  \E n \in 0..Len(kColumns), reliable_metadata \in BOOLEAN :
    /\ query # Nil
    /\ origin[B] = "default"
    /\ Populate(B, InitFromQuery(Val(B), Truncated(SqlRow(1, query.b), n),
                                 reliable_metadata, 0, cache),
                [op |-> "InitFromQuery", h |-> B, shape |-> "truncated",
                 n |-> n, reliable_metadata |-> reliable_metadata,
                 pre |-> Val(B)], "row")

\* The stored row is read from a result set that lost or gained a column.
Row_ReadShifted ==
  \E k \in ChangedAt, shape \in {"removed", "added"} :
    /\ query # Nil
    /\ origin[B] = "default"
    /\ LET q == SqlRow(1, query.b)
           r == IF shape = "removed" THEN Without(q, k)
                ELSE WithAdded(q, k, QInt(MaxInt + 1))
       IN Populate(B, InitFromQuery(Val(B), r, TRUE, 0, cache),
                   [op |-> "InitFromQuery", h |-> B, shape |-> shape,
                    n |-> k, reliable_metadata |-> TRUE,
                    pre |-> Val(B)], "row")

\* The stored row is read after another writer changed the three projection
\* columns.
Row_ReadProjections ==
  \E ce \in {QInt(0), QInt(1)}, ea \in {QStr(<<"z">>), QNull},
     ey \in {QInt(MaxInt), QNull} :
    /\ query # Nil
    /\ origin[B] = "default"
    /\ LET b == [query.b EXCEPT !.compilation_effective = ce,
                                !.effective_albumartist = ea,
                                !.effective_originalyear = ey]
       IN Populate(B, InitFromQuery(Val(B), SqlRow(1, b), TRUE, 0, cache),
                   [op |-> "InitFromQuery", h |-> B, shape |-> "projections",
                    n |-> Len(kColumns), reliable_metadata |-> TRUE,
                    pre |-> Val(B), row |-> b], "row")

\* A row whose columns are all NULL but the row id is read.
Row_ReadNulls ==
  /\ query # Nil
  /\ origin[B] = "default"
  /\ LET q == <<QInt(1)>> \o [i \in 1..Len(kColumns) |-> QNull]
     IN Populate(B, InitFromQuery(Val(B), q, TRUE, 0, cache),
                 [op |-> "InitFromQuery", h |-> B, shape |-> "nulls",
                  n |-> Len(kColumns), reliable_metadata |-> TRUE,
                  pre |-> Val(B)], "row")

\* A stored Song A, a fresh Song B and a cover cache.
InitStored ==
  /\ \E s \in StoredSongs, g \in Indeterminate :
       /\ heap = [p \in PayloadIds |->
                    IF p = A THEN s
                    ELSE IF p = B THEN NewPrivate(g) ELSE Nil]
       /\ shadow = [h \in Handles |->
                    IF h = A THEN s
                    ELSE IF h = B THEN NewPrivate(g) ELSE Nil]
  /\ d = [h \in Handles |-> IF h \in {A, B} THEN h ELSE NoSong]
  /\ origin = [h \in Handles |->
                 IF h = A THEN "written" ELSE IF h = B THEN "default" ELSE "none"]
  /\ query = Nil
  /\ pb = Nil
  /\ mtp_track = Nil
  /\ cache \in {{}, CoverFiles}
  /\ last = NoCall

\* A is bound to the INSERT and the row comes back in one of several shapes.
NextRows ==
  \/ Adapter_BindToQuery
  \/ Row_ReadTruncated
  \/ Row_ReadShifted
  \/ Row_ReadProjections
  \/ Row_ReadNulls

SpecRows == InitStored /\ [][NextRows]_vars

\* ------------------------------------------ what the wire message carries

\* The members that a column of the songs table stores.
PersistedFields ==
  {ColumnField(kColumns[i]) : i \in 1..Len(kColumns)} \ ProjectionColumns

\* The values handed to the setter of f before the Song is serialized.
WireArgs(f) ==
  IF f \in StringFields \ {"url"} THEN {<<"a">>, <<"u">>} ELSE SetterArgs(f)

\* A setter of the fresh Song A moves one persisted field.
Wire_Set ==
  \E f \in PersistedFields :
    \E v \in WireArgs(f) :
      /\ NothingSerialized
      /\ origin[A] = "default"
      /\ Mutate(A, SetField(Val(A), f, v), [op |-> "set", h |-> A, f |-> f])

\* One field of A is set, A is serialized and the message is read into B.
NextWire ==
  \/ Wire_Set
  \/ Adapter_ToProtobuf
  \/ Adapter_InitFromProtobuf

SpecWire == InitTwo /\ [][NextWire]_vars

\* ------------------------------------------- derived getters of one Song

\* is_collection_song that looks at the id only
is_collection_song_AnyType(s) == s.id # -1

\* Song::IsEditable
IsEditable(s) ==
  s.valid /\ ~isEmpty(s.url) /\ s.filetype # Type_Unknown /\ ~has_cue(s)

\* Song::is_cdda, Song::is_collection_song
is_cdda(s) == s.filetype = Type_Cdda
is_collection_song(s) == ~is_cdda(s) /\ s.id # -1

\* set_album, set_title, set_albumartist, set_artist, set_originalyear or
\* set_year is called on A.
Effective_Set ==
  \/ \E f \in {"album", "title", "albumartist", "artist"}, v \in {E, <<"a">>, <<"b">>} :
       Mutate(A, SetField(Val(A), f, v), [op |-> "set", h |-> A, f |-> f])
  \/ \E f \in {"originalyear", "year"}, v \in IntArgs :
       Mutate(A, SetField(Val(A), f, v), [op |-> "set", h |-> A, f |-> f])

Call_effective_album ==
  Observe(A, [op |-> "effective_album", h |-> A,
              ret |-> effective_album(Val(A))])

Call_effective_albumartist ==
  Observe(A, [op |-> "effective_albumartist", h |-> A,
              ret |-> effective_albumartist(Val(A))])

Call_effective_originalyear ==
  Observe(A, [op |-> "effective_originalyear", h |-> A,
              ret |-> effective_originalyear(Val(A))])

\* Setters and the three effective getters of one Song.
NextEffective ==
  \/ Effective_Set
  \/ Call_effective_album
  \/ Call_effective_albumartist
  \/ Call_effective_originalyear

SpecEffective == InitOne /\ [][NextEffective]_vars

\* set_valid, set_url, set_filetype, set_cue_path or set_id is called on A.
Editable_Set ==
  \/ \E v \in BOOLEAN :
       Mutate(A, SetField(Val(A), "valid", v), [op |-> "set", h |-> A, f |-> "valid"])
  \/ \E v \in {E, <<"file:", "a">>} :
       Mutate(A, set_url(Val(A), v), [op |-> "set", h |-> A, f |-> "url"])
  \/ \E v \in {Type_Unknown, Type_Mpeg, Type_Cdda} :
       Mutate(A, SetField(Val(A), "filetype", v), [op |-> "set", h |-> A, f |-> "filetype"])
  \/ \E v \in {E, <<"c">>} :
       Mutate(A, SetField(Val(A), "cue_path", v), [op |-> "set", h |-> A, f |-> "cue_path"])
  \/ \E v \in Ids :
       Mutate(A, set_id(Val(A), v), [op |-> "set", h |-> A, f |-> "id"])

Call_IsEditable ==
  Observe(A, [op |-> "IsEditable", h |-> A, ret |-> IsEditable(Val(A))])

Call_is_collection_song ==
  Observe(A, [op |-> "is_collection_song", h |-> A,
              ret |-> is_collection_song(Val(A))])

\* Setters and the two classifying getters of one Song.
NextEditable ==
  \/ Editable_Set
  \/ Call_IsEditable
  \/ Call_is_collection_song

SpecEditable == InitOne /\ [][NextEditable]_vars

\* ------------------------------------------------------------ MTP adapter

\* kNsecPerMsec, declared in core/timeconstants.h
kNsecPerMsec == 1000000

\* The quotient of two C++ integers, which truncates toward zero.
Quotient(a, b) == IF a >= 0 THEN a \div b ELSE -((-a) \div b)

\* LIBMTP_filetype_t: the codecs the two switches name and two they do not.
DeviceCodecs ==
  {"LIBMTP_FILETYPE_WAV", "LIBMTP_FILETYPE_MP3", "LIBMTP_FILETYPE_WMA",
   "LIBMTP_FILETYPE_OGG", "LIBMTP_FILETYPE_MP4", "LIBMTP_FILETYPE_AAC",
   "LIBMTP_FILETYPE_FLAC", "LIBMTP_FILETYPE_MP2", "LIBMTP_FILETYPE_M4A",
   "LIBMTP_FILETYPE_ASF", "LIBMTP_FILETYPE_UNDEF_AUDIO",
   "LIBMTP_FILETYPE_AUDIBLE", "LIBMTP_FILETYPE_JPEG"}

\* The Song::FileType enumerators the model holds.
FileTypes ==
  {Type_Unknown, Type_Asf, Type_Flac, Type_Mp4, Type_Mpeg, Type_OggFlac,
   Type_OggSpeex, Type_OggVorbis, Type_Wav, Type_Cdda}

\* The switch of InitFromMTP
FileTypeFromMTP(c) ==
  CASE c = "LIBMTP_FILETYPE_WAV"  -> Type_Wav
    [] c = "LIBMTP_FILETYPE_MP3"  -> Type_Mpeg
    [] c = "LIBMTP_FILETYPE_WMA"  -> Type_Asf
    [] c = "LIBMTP_FILETYPE_OGG"  -> Type_OggVorbis
    [] c = "LIBMTP_FILETYPE_MP4"  -> Type_Mp4
    [] c = "LIBMTP_FILETYPE_AAC"  -> Type_Mp4
    [] c = "LIBMTP_FILETYPE_FLAC" -> Type_OggFlac
    [] c = "LIBMTP_FILETYPE_MP2"  -> Type_Mpeg
    [] c = "LIBMTP_FILETYPE_M4A"  -> Type_Mp4
    [] OTHER                      -> Type_Unknown

\* The switch of ToMTP
FileTypeToMTP(t) ==
  CASE t = Type_Asf       -> "LIBMTP_FILETYPE_ASF"
    [] t = Type_Mp4       -> "LIBMTP_FILETYPE_MP4"
    [] t = Type_Mpeg      -> "LIBMTP_FILETYPE_MP3"
    [] t = Type_Flac      -> "LIBMTP_FILETYPE_FLAC"
    [] t = Type_OggFlac   -> "LIBMTP_FILETYPE_FLAC"
    [] t = Type_OggSpeex  -> "LIBMTP_FILETYPE_OGG"
    [] t = Type_OggVorbis -> "LIBMTP_FILETYPE_OGG"
    [] t = Type_Wav       -> "LIBMTP_FILETYPE_WAV"
    [] OTHER              -> "LIBMTP_FILETYPE_UNDEF_AUDIO"

\* QString::arg(a, fieldWidth): a, padded on the left to fieldWidth
RECURSIVE Padded(_, _)
Padded(a, fieldWidth) ==
  IF Len(a) >= fieldWidth THEN a ELSE Padded(<<" ">> \o a, fieldWidth)

\* Song::ToMTP: the members of the LIBMTP_track_t it assigns
ToMTP(s) ==
  [ item_id |-> 0, parent_id |-> 0, storage_id |-> 0,
    title |-> toUtf8(s.title),
    artist |-> toUtf8(s.artist),
    album |-> toUtf8(s.album),
    genre |-> toUtf8(s.genre),
    date |-> Nil,
    tracknumber |-> s.track,
    composer |-> toUtf8(s.composer),
    filename |-> toUtf8(s.basefilename),
    filesize |-> s.filesize,
    modificationdate |-> s.mtime,
    duration |-> Quotient(length_nanosec(s), kNsecPerMsec),
    bitrate |-> s.bitrate, bitratetype |-> 0,
    samplerate |-> s.samplerate, nochannels |-> 0, wavecodec |-> 0,
    usecount |-> s.playcount,
    filetype |-> FileTypeToMTP(s.filetype) ]

\* Song::InitFromMTP. The url is QString("mtp://%1/%2").arg(host, item_id),
\* where the integer item_id is the field width of the one argument host.
InitFromMTP(s, track, host) ==
  LET s1 == [s EXCEPT
               !.valid = TRUE,
               !.title = fromUtf8(track.title),
               !.artist = fromUtf8(track.artist),
               !.album = fromUtf8(track.album),
               !.genre = fromUtf8(track.genre),
               !.composer = fromUtf8(track.composer),
               !.track = track.tracknumber,
               !.url = <<"mtp:">> \o Padded(host, track.item_id) \o <<"/%2">>,
               !.basefilename = <<ToString(track.item_id)>>,
               !.filesize = track.filesize,
               !.mtime = track.modificationdate,
               !.ctime = track.modificationdate]
      s2 == set_length_nanosec(s1, track.duration * kNsecPerMsec)
  IN [s2 EXCEPT
        !.samplerate = track.samplerate,
        !.bitdepth = 0,
        !.bitrate = track.bitrate,
        !.playcount = track.usecount,
        !.filetype = FileTypeFromMTP(track.filetype)]

\* The tracks a device lists: one of each codec.
DeviceTracks ==
  {[ToMTP(NewPrivate(-1)) EXCEPT
      !.item_id = 1, !.title = <<"a">>, !.duration = MaxInt, !.filetype = c] :
     c \in DeviceCodecs}

\* set_filetype or set_title is called on the fresh Song A.
MTP_Set ==
  /\ mtp_track = Nil
  /\ \/ \E v \in FileTypes :
          Mutate(A, SetField(Val(A), "filetype", v),
                 [op |-> "set", h |-> A, f |-> "filetype"])
     \/ \E v \in {<<"a">>, <<"u">>} :
          Mutate(A, SetField(Val(A), "title", v),
                 [op |-> "set", h |-> A, f |-> "title"])

\* A is written to a LIBMTP_track_t.
MTP_ToMTP ==
  /\ mtp_track = Nil
  /\ mtp_track' = [t |-> ToMTP(Val(A)), of |-> Val(A)]
  /\ last' = [op |-> "ToMTP", h |-> A]
  /\ UNCHANGED <<d, heap, shadow, origin, query, pb, cache>>

\* The track that ToMTP filled is read into the fresh Song B.
MTP_InitFromMTP ==
  /\ mtp_track # Nil
  /\ origin[B] = "default"
  /\ Populate(B, InitFromMTP(Val(B), mtp_track.t, <<"h">>),
              [op |-> "InitFromMTP", h |-> B, from |-> "ToMTP",
               codec |-> mtp_track.t.filetype, of |-> mtp_track.of], "mtp")

\* A track that the device lists is read into the fresh Song B.
MTP_InitFromDevice ==
  \E track \in DeviceTracks :
    /\ origin[B] = "default"
    /\ Populate(B, InitFromMTP(Val(B), track, <<"h">>),
                [op |-> "InitFromMTP", h |-> B, from |-> "device",
                 codec |-> track.filetype, of |-> Nil], "mtp")

\* A is given a file type, written to a track and read back into B, or B
\* reads a track of the device.
NextMTP ==
  \/ MTP_Set
  \/ MTP_ToMTP
  \/ MTP_InitFromMTP
  \/ MTP_InitFromDevice

SpecMTP == InitTwo /\ [][NextMTP]_vars

\* ------------------------------------------------------ cover adoption

\* set_art_manual, set_art_automatic or set_artist is called on A.
Art_Set ==
  /\ NothingSerialized
  /\ \/ \E v \in {E, kManuallyUnsetCover, <<"p">>} :
          Mutate(A, SetField(Val(A), "art_manual", v),
                 [op |-> "set", h |-> A, f |-> "art_manual"])
     \/ \E v \in {E, kEmbeddedCover, <<"a">>} :
          Mutate(A, SetField(Val(A), "art_automatic", v),
                 [op |-> "set", h |-> A, f |-> "art_automatic"])
     \/ \E v \in {E, <<"a">>, <<"b">>} :
          Mutate(A, SetField(Val(A), "artist", v),
                 [op |-> "set", h |-> A, f |-> "artist"])

\* The art fields and the artist of A are set, A is written through one
\* adapter and read into B beside a cover cache.
NextArt ==
  \/ Art_Set
  \/ Adapter_BindToQuery
  \/ Adapter_ToProtobuf
  \/ Adapter_InitFromQuery
  \/ Adapter_InitFromProtobuf

SpecArt == InitTwo /\ [][NextArt]_vars

\* --------------------------------------------- engine metadata bundle

\* QUrl::scheme
scheme(u) ==
  IF u = E THEN ""
  ELSE CASE Head(u) = "file:" -> "file"
         [] Head(u) = "http:" -> "http"
         [] Head(u) = "mtp:"  -> "mtp"
         [] OTHER             -> ""

\* QString::toInt and QString::toLongLong: the number that a decimal string
\* spells, 0 for any other string.
QStringToInt(x) ==
  IF \E n \in 0..(MaxInt + 1) : x = <<ToString(n)>>
  THEN CHOOSE n \in 0..(MaxInt + 1) : x = <<ToString(n)>>
  ELSE 0

\* Song::MergeFromSimpleMetaBundle
MergeFromSimpleMetaBundle(s, bundle) ==
  IF s.init_from_file \/ scheme(s.url) = "file" THEN s
  ELSE
    LET s1 == [s EXCEPT !.valid = TRUE]
        s2 == IF ~isEmpty(bundle.title) THEN [s1 EXCEPT !.title = bundle.title] ELSE s1
        s3 == IF ~isEmpty(bundle.artist) THEN [s2 EXCEPT !.artist = bundle.artist] ELSE s2
        s4 == IF ~isEmpty(bundle.album) THEN [s3 EXCEPT !.album = bundle.album] ELSE s3
        s5 == IF ~isEmpty(bundle.comment) THEN [s4 EXCEPT !.comment = bundle.comment] ELSE s4
        s6 == IF ~isEmpty(bundle.genre) THEN [s5 EXCEPT !.genre = bundle.genre] ELSE s5
        s7 == IF ~isEmpty(bundle.bitrate)
              THEN [s6 EXCEPT !.bitrate = QStringToInt(bundle.bitrate)] ELSE s6
        s8 == IF ~isEmpty(bundle.samplerate)
              THEN [s7 EXCEPT !.samplerate = QStringToInt(bundle.samplerate)] ELSE s7
        s9 == IF ~isEmpty(bundle.bitdepth)
              THEN [s8 EXCEPT !.samplerate = QStringToInt(bundle.bitdepth)] ELSE s8
        s10 == IF ~isEmpty(bundle.length)
               THEN set_length_nanosec(s9, QStringToInt(bundle.length)) ELSE s9
        s11 == IF ~isEmpty(bundle.year)
               THEN [s10 EXCEPT !.year = QStringToInt(bundle.year)] ELSE s10
    IN IF ~isEmpty(bundle.tracknr)
       THEN [s11 EXCEPT !.track = QStringToInt(bundle.tracknr)] ELSE s11

\* The members of an Engine::SimpleMetaBundle, and the bundles an engine
\* sends: an empty one, one with a single tag, one with every tag.
BundleFields ==
  {"title", "artist", "album", "comment", "genre", "bitrate", "samplerate",
   "bitdepth", "length", "year", "tracknr"}
BundleValue(f) ==
  CASE f \in {"title", "artist", "album", "comment", "genre"} -> <<"a">>
    [] f = "samplerate" -> <<ToString(MaxInt - 1)>>
    [] OTHER            -> <<ToString(MaxInt)>>
Bundles ==
  {[f \in BundleFields |-> IF f \in F THEN BundleValue(f) ELSE E] :
     F \in {{}, BundleFields} \cup {{f} : f \in BundleFields}}
    \cup {[f \in BundleFields |-> IF f = "bitrate" THEN <<"x">> ELSE E]}

\* The engine's tags are merged into a Song that is not valid yet.
Call_MergeFromSimpleMetaBundle ==
  \E bundle \in Bundles :
    /\ ~Val(A).valid
    /\ Mutate(A, MergeFromSimpleMetaBundle(Val(A), bundle),
              [op |-> "MergeFromSimpleMetaBundle", h |-> A,
               bundle |-> bundle, pre |-> Val(A)])

Call_bitdepth ==
  Observe(A, [op |-> "bitdepth", h |-> A, ret |-> bitdepth(Val(A))])

Call_samplerate ==
  Observe(A, [op |-> "samplerate", h |-> A, ret |-> Val(A).samplerate])

\* A Song that is not valid yet: a stream, a local file or no locator, with
\* or without reliable metadata, its beginning at 0 or later.
InitStream ==
  /\ \E g \in Indeterminate, u \in {E, <<"file:", "a">>, <<"http:", "a">>},
        r \in BOOLEAN, b \in {0, 1} :
       LET s == [NewPrivate(g) EXCEPT
                   !.url = u, !.init_from_file = r, !.beginning = b]
       IN /\ heap = [p \in PayloadIds |-> IF p = A THEN s ELSE Nil]
          /\ shadow = [h \in Handles |-> IF h = A THEN s ELSE Nil]
  /\ d = [h \in Handles |-> IF h = A THEN A ELSE NoSong]
  /\ origin = [h \in Handles |-> IF h = A THEN "written" ELSE "none"]
  /\ query = Nil
  /\ pb = Nil
  /\ mtp_track = Nil
  /\ cache = {}
  /\ last = NoCall

\* The engine merges a bundle and the sample rate and bit depth are read.
NextMerge ==
  \/ Call_MergeFromSimpleMetaBundle
  \/ Call_bitdepth
  \/ Call_samplerate

SpecMerge == InitStream /\ [][NextMerge]_vars

\* ------------------------------------------------------------- hashes

\* A uint is kept as its two 16-bit halves <<high, low>>.
Half == 65536

\* operator^ on one half and on a uint
RECURSIVE XorHalf(_, _)
XorHalf(a, b) ==
  IF a = 0 THEN b
  ELSE IF b = 0 THEN a
  ELSE 2 * XorHalf(a \div 2, b \div 2) + (((a % 2) + (b % 2)) % 2)
Xor(x, y) == <<XorHalf(x[1], y[1]), XorHalf(x[2], y[2])>>

\* QChar::unicode
unicode(c) ==
  CASE c = "a" -> 97 [] c = "b" -> 98 [] c = "s" -> 115
    [] c = "A" -> 65 [] c = "B" -> 66 [] c = "S" -> 83
    [] c = "u017f" -> 383
    [] OTHER -> 63

\* qHash(const QString &, uint seed = 0): h = 31 * h + ch.unicode() over the
\* characters, in 32 bits.
RECURSIVE qHashString(_)
qHashString(x) ==
  IF x = E THEN <<0, 0>>
  ELSE LET h   == qHashString(SubSeq(x, 1, Len(x) - 1))
           low == 31 * h[2] + unicode(x[Len(x)])
       IN <<(31 * h[1] + (low \div Half)) % Half, low % Half>>

\* qHash(qint64, uint seed = 0): the low 32 bits of (key >> 31) ^ key, which
\* is key for 0 <= key < 2^31 and -key - 1 for -2^31 <= key < 0.
qHashInt64(key) ==
  LET k == IF key >= 0 THEN key ELSE -key - 1
  IN <<k \div Half, k % Half>>

\* QUrl::toString
UrlToString(u) == u

\* qHash(const Song &)
qHash(song) == Xor(qHashString(UrlToString(song.url)), qHashInt64(beginning_nanosec(song)))

\* HashSimilar(const Song &)
HashSimilar(song) ==
  Xor(qHashString(toLower(song.title)), qHashString(toLower(song.artist)))

Call_qHash ==
  \E h \in {A, B} :
    Observe(h, [op |-> "qHash", h |-> h, ret |-> qHash(Val(h))])

Call_HashSimilar ==
  \E h \in {A, B} :
    Observe(h, [op |-> "HashSimilar", h |-> h, ret |-> HashSimilar(Val(h))])

\* The Songs that are hashed: titles that differ in case only, in the long s
\* only, or in a letter; two artists, locators, beginnings and albums.
HashedSongs ==
  {[NewPrivate(-1) EXCEPT !.valid = TRUE, !.title = t, !.artist = ar,
                          !.url = u, !.beginning = b, !.album = al] :
     t \in {<<"s">>, <<"S">>, <<"u017f">>, <<"a", "s">>},
     ar \in {E, <<"a">>, <<"A">>},
     u \in {E, <<"a">>},
     b \in {0, 1},
     al \in {E, <<"a">>}}

InitHashed ==
  /\ \E sa \in HashedSongs, sb \in HashedSongs :
       /\ heap = [p \in PayloadIds |->
                    IF p = A THEN sa ELSE IF p = B THEN sb ELSE Nil]
       /\ shadow = [h \in Handles |->
                    IF h = A THEN sa ELSE IF h = B THEN sb ELSE Nil]
  /\ d = [h \in Handles |-> IF h \in {A, B} THEN h ELSE NoSong]
  /\ origin = [h \in Handles |-> IF h \in {A, B} THEN "written" ELSE "none"]
  /\ query = Nil
  /\ pb = Nil
  /\ mtp_track = Nil
  /\ cache = {}
  /\ last = NoCall

\* Two Songs are compared and hashed.
NextHashes ==
  \/ Call_OpEq
  \/ Call_IsSimilar
  \/ Call_qHash
  \/ Call_HashSimilar

SpecHashes == InitHashed /\ [][NextHashes]_vars

\* ------------------------------------------------------------------ claims

\* The rows of the truth table on which a Song counts as a compilation:
\* <<compilation, compilation_detected, compilation_on, compilation_off>>.
CompilationRows ==
  { <<TRUE, FALSE, FALSE, FALSE>>, <<FALSE, TRUE, FALSE, FALSE>>,
    <<FALSE, FALSE, TRUE, FALSE>>, <<TRUE, TRUE, FALSE, FALSE>>,
    <<TRUE, FALSE, TRUE, FALSE>>, <<FALSE, TRUE, TRUE, FALSE>>,
    <<TRUE, TRUE, TRUE, FALSE>> }

FlagsOf(s) ==
  <<s.compilation, s.compilation_detected, s.compilation_on, s.compilation_off>>

\* C1: whatever sequence of the four flag setters led to the state, a call of
\* is_compilation() returns TRUE exactly on the seven rows of the truth table
\* where one of compilation, compilation_detected, compilation_on is set and
\* compilation_off is not; with compilation_off set it returns FALSE.
C1_IsCompilationTruthTable ==
  last.op = "is_compilation" =>
    /\ last.ret = (FlagsOf(Val(last.h)) \in CompilationRows)
    /\ (Val(last.h).compilation_off => last.ret = FALSE)

\* C1 witness: the override row, every positive flag set and compilation_off
\* set, has been queried.
C1_Witness ==
  /\ last.op = "is_compilation"
  /\ FlagsOf(Val(last.h)) = <<TRUE, TRUE, TRUE, TRUE>>
  /\ last.ret = FALSE


\* C2: in every reachable state the stored beginning is at least 0, after any
\* sequence of set_beginning_nanosec, the five-argument Init, InitFromQuery
\* and InitFromProtobuf, negative inputs included.
C2_BeginningNeverNegative ==
  Live(A) => beginning_nanosec(Val(A)) >= 0

\* C3: set_length_nanosec(L) leaves the beginning as it was, sets the end to
\* beginning + L, and length_nanosec() then returns L, whatever the beginning
\* and the end were before.
C3_SetLengthRoundTrip ==
  last.op = "set_length_nanosec" =>
    /\ beginning_nanosec(Val(last.h)) = beginning_nanosec(last.pre)
    /\ end_nanosec(Val(last.h)) = beginning_nanosec(last.pre) + last.v
    /\ length_nanosec(Val(last.h)) = last.v

\* C3 witness: a length was set on a Song whose beginning was not 0 and whose
\* end was not the default, so that the end had to move with the beginning.
C3_Witness ==
  /\ last.op = "set_length_nanosec"
  /\ beginning_nanosec(last.pre) > 0
  /\ last.v > 0
  /\ end_nanosec(last.pre) # end_nanosec(Val(last.h))
  /\ length_nanosec(Val(last.h)) = last.v


\* The documented sentinels of a default-constructed Song.
Sentinels(s) ==
  /\ is_valid(s) = FALSE
  /\ s.id = -1 /\ s.album_id = -1
  /\ s.track = -1 /\ s.disc = -1 /\ s.year = -1 /\ s.originalyear = -1
  /\ s.end = -1
  /\ s.bitrate = -1 /\ s.samplerate = -1 /\ bitdepth(s) = -1
  /\ s.directory_id = -1 /\ s.filesize = -1 /\ s.mtime = -1 /\ s.ctime = -1
  /\ s.lastplayed = -1
  /\ s.beginning = 0 /\ s.playcount = 0 /\ s.skipcount = 0
  /\ s.filetype = Type_Unknown
  /\ \A f \in {"title", "album", "artist", "albumartist", "genre", "composer",
               "performer", "grouping", "comment", "basefilename", "url",
               "art_automatic", "art_manual", "cue_path"} : s[f] = E
  /\ \A f \in {"compilation", "unavailable", "compilation_detected",
               "compilation_on", "compilation_off", "init_from_file",
               "suspicious_tags"} : s[f] = FALSE

\* C4: a default-constructed Song is invalid and every field holds its
\* documented sentinel; in particular its bitdepth() is -1.
C4_DefaultConstructedSentinels ==
  \A h \in Handles : (Live(h) /\ origin[h] = "default") => Sentinels(Val(h))

\* C5: every handle reads the values it would hold had every copy been a deep
\* copy: a write through one handle is seen through that handle alone.
C5_CopyOnWriteIsolation ==
  \A h \in Handles : Live(h) => Val(h) = shadow[h]

\* C5 witness: a setter wrote through a handle whose payload another handle
\* shared at that moment, and the two handles now read different values.
C5_Witness ==
  /\ last.op \in {"set_id", "Init4"}
  /\ last.shared
  /\ \E g \in Handles \ {last.h} : Live(g) /\ Val(g) # Val(last.h)


\* The three grouping rules as the specification words them.
SameCue(a, b) ==
  /\ is_compilation(a) = is_compilation(b)
  /\ ~isEmpty(a.cue_path) /\ a.cue_path = b.cue_path
SameCompilationAlbum(a, b) ==
  is_compilation(a) /\ is_compilation(b) /\ a.album = b.album
SameEffective(a, b) ==
  /\ (IF a.album = E THEN a.title ELSE a.album)
       = (IF b.album = E THEN b.title ELSE b.album)
  /\ (IF a.albumartist = E THEN a.artist ELSE a.albumartist)
       = (IF b.albumartist = E THEN b.artist ELSE b.albumartist)

\* C8 as claimed: IsOnSameAlbum(a, b) is TRUE exactly when (a) the two have
\* the same is_compilation() and the identical non-empty CUE path, or (b) both
\* are compilations with the identical album, or (c) effective album and
\* effective album artist are both identical.
C8_SameAlbumAsClaimed ==
  last.op = "IsOnSameAlbum" =>
    last.ret = (\/ SameCue(Val(last.h), Val(last.o))
                \/ SameCompilationAlbum(Val(last.h), Val(last.o))
                \/ SameEffective(Val(last.h), Val(last.o)))

\* C8 amended: IsOnSameAlbum(a, b) is TRUE exactly when a and b have the same
\* is_compilation() value and one of (a) identical non-empty CUE path, (b)
\* both compilations with the identical album, (c) identical effective album
\* and effective album artist holds.
C8_SameAlbumSameCompilation ==
  last.op = "IsOnSameAlbum" =>
    last.ret = (/\ is_compilation(Val(last.h)) = is_compilation(Val(last.o))
                /\ \/ SameCue(Val(last.h), Val(last.o))
                   \/ SameCompilationAlbum(Val(last.h), Val(last.o))
                   \/ SameEffective(Val(last.h), Val(last.o)))

\* C8 witness: rule (c) holds for a compilation and a non-compilation, and
\* the call returned FALSE.
C8_Witness ==
  /\ last.op = "IsOnSameAlbum"
  /\ last.h # last.o
  /\ SameEffective(Val(last.h), Val(last.o))
  /\ is_compilation(Val(last.h)) # is_compilation(Val(last.o))
  /\ last.ret = FALSE

\* C9: two Songs that IsOnSameAlbum groups together have the identical
\* AlbumKey, however they were grouped.
C9_AlbumKeyStable ==
  IsOnSameAlbum(Val(A), Val(B)) => AlbumKey(Val(A)) = AlbumKey(Val(B))

\* Two non-compilations without album and album artist, with one title.
Singles(a, b) ==
  /\ ~is_compilation(a) /\ ~is_compilation(b)
  /\ a.album = E /\ b.album = E
  /\ a.albumartist = E /\ b.albumartist = E
  /\ a.title = b.title

\* C10 as claimed: two non-compilations with empty album and album artist
\* and the identical title are on the same album, whatever else they hold.
C10_SinglesAsClaimed ==
  (last.op = "IsOnSameAlbum" /\ Singles(Val(last.h), Val(last.o)))
    => last.ret = TRUE

\* C10 amended: two non-compilations with empty album and album artist, the
\* identical title and the identical artist are on the same album, whatever
\* else they hold.
C10_SinglesSameArtist ==
  (/\ last.op = "IsOnSameAlbum"
   /\ Singles(Val(last.h), Val(last.o))
   /\ Val(last.h).artist = Val(last.o).artist)
    => last.ret = TRUE

\* C10 witness: two such singles that differ in their CUE path were compared
\* and grouped.
C10_Witness ==
  /\ last.op = "IsOnSameAlbum"
  /\ last.h # last.o
  /\ Singles(Val(last.h), Val(last.o))
  /\ Val(last.h).artist = Val(last.o).artist
  /\ Val(last.h).cue_path # Val(last.o).cue_path
  /\ last.ret = TRUE


\* B was just read from what A wrote through the relational adapter.
ReadBackFromRow  == last.op = "InitFromQuery" /\ last.h = B
\* B was just read from what A wrote through the wire adapter.
ReadBackFromWire == last.op = "InitFromProtobuf" /\ last.h = B

\* C6 as claimed: every -1-sentinel int field written as x reads back as x
\* for every x >= 0, 0 included, and as -1 for x = -1, through BindToQuery /
\* InitFromQuery and through ToProtobuf / InitFromProtobuf.
C6_IntRoundTripAsClaimed ==
  /\ ReadBackFromRow =>
       \A f \in RowIntFields :
         /\ last.of[f] >= 0 => Val(B)[f] = last.of[f]
         /\ last.of[f] = -1 => Val(B)[f] = -1
  /\ ReadBackFromWire =>
       \A f \in WireIntFields :
         /\ last.of[f] >= 0 => Val(B)[f] = last.of[f]
         /\ last.of[f] = -1 => Val(B)[f] = -1

\* The fields BindToQuery binds through intval, which writes 0 as -1.
PositiveOnly ==
  {"track", "disc", "year", "originalyear", "bitrate", "samplerate",
   "bitdepth", "lastplayed"}

\* C6 amended: through ToProtobuf / InitFromProtobuf every field reads back
\* as x for x >= 0 and as -1 for x = -1. Through BindToQuery / InitFromQuery
\* that holds for directory_id, filesize, mtime and ctime; track, disc, year,
\* originalyear, bitrate, samplerate, bitdepth and lastplayed read back as x
\* for x >= 1 and as -1 for x = 0 and for x = -1.
C6_IntRoundTrip ==
  /\ ReadBackFromRow =>
       /\ \A f \in RowIntFields \ PositiveOnly :
            /\ last.of[f] >= 0 => Val(B)[f] = last.of[f]
            /\ last.of[f] = -1 => Val(B)[f] = -1
       /\ \A f \in PositiveOnly :
            /\ last.of[f] >= 1 => Val(B)[f] = last.of[f]
            /\ last.of[f] \in {0, -1} => Val(B)[f] = -1
  /\ ReadBackFromWire =>
       \A f \in WireIntFields :
         /\ last.of[f] >= 0 => Val(B)[f] = last.of[f]
         /\ last.of[f] = -1 => Val(B)[f] = -1

\* C6 witness: a Song whose directory_id a setter had moved to 0, its other
\* sentinel fields left at -1, was stored and read back.
C6_Witness ==
  /\ ReadBackFromRow
  /\ last.of.directory_id = 0 /\ Val(B).directory_id = 0
  /\ last.of.filesize = -1 /\ Val(B).filesize = -1
  /\ last.of.track = -1 /\ Val(B).track = -1

\* C7: a fresh Song A filled by InitFromProtobuf, serialized by ToProtobuf
\* and read into a fresh Song B by InitFromProtobuf is metadata-equal to B,
\* with art_automatic and playcount present or absent in the first message.
C7_WireRoundTrip ==
  (ReadBackFromWire /\ last.from = "wire") => IsMetadataEqual(Val(A), Val(B))

\* C7 witness: the first message carried neither art_automatic nor playcount
\* and not only ASCII, the cache held a cover, and both Songs adopted it.
C7_Witness ==
  /\ ReadBackFromWire /\ last.from = "wire"
  /\ origin[A] = "wire"
  /\ Val(A).art_automatic = E
  /\ Val(A).art_manual # E
  /\ Val(B).art_manual = Val(A).art_manual
  /\ Val(A).title = <<"U+FFFD">>
  /\ Val(A).playcount = 0

\* Two strings that match when case is ignored.
SameIgnoringCase(a, b) ==
  /\ Len(a) = Len(b)
  /\ \A i \in 1..Len(a) :
       a[i] = b[i] \/ {a[i], b[i]} \in {{"a", "A"}, {"b", "B"}}

\* Same title and artist, different locators.
SameTagsOtherUrl(a, b) ==
  a.title = b.title /\ a.artist = b.artist /\ a.url # b.url

\* C11: operator== returns TRUE exactly when url and beginning are the same,
\* IsSimilar returns TRUE exactly when title and artist each match ignoring
\* case; two Songs with the same title and artist and different urls are not
\* == and are similar.
C11_EqualityVsSimilarity ==
  /\ last.op = "operator==" =>
       /\ last.ret = (/\ Val(last.h).url = Val(last.o).url
                      /\ Val(last.h).beginning = Val(last.o).beginning)
       /\ SameTagsOtherUrl(Val(last.h), Val(last.o)) => last.ret = FALSE
  /\ last.op = "IsSimilar" =>
       /\ last.ret = (/\ SameIgnoringCase(Val(last.h).title, Val(last.o).title)
                      /\ SameIgnoringCase(Val(last.h).artist, Val(last.o).artist))
       /\ SameTagsOtherUrl(Val(last.h), Val(last.o)) => last.ret = TRUE

\* C11 witness: IsSimilar was called on two Songs whose titles differ in case
\* only, and returned TRUE.
C11_Witness ==
  /\ last.op = "IsSimilar" /\ last.h # last.o
  /\ Val(A).title = <<"a">> /\ Val(B).title = <<"A">>
  /\ last.ret = TRUE

\* The three predicates that two Songs with the values a and b fail.
Failing(a, b) ==
  {p \in {"operator==", "IsMetadataEqual", "IsSimilar"} :
     \/ p = "operator==" /\ ~OpEq(a, b)
     \/ p = "IsMetadataEqual" /\ ~IsMetadataEqual(a, b)
     \/ p = "IsSimilar" /\ ~IsSimilar(a, b)}

\* C12 as claimed: B was equal to A and one field of B alone was changed;
\* at most one of operator==, IsMetadataEqual and IsSimilar now returns
\* another result for the two than it did.
C12_DisjointFieldSets ==
  Cardinality(Differ(Val(A), Val(B))) = 1 =>
    Cardinality(Failing(Val(A), Val(B))) <= 1

\* The fields IsMetadataEqual compares; length_nanosec() reads beginning and
\* end.
MetadataFields ==
  {"title", "album", "artist", "albumartist", "composer", "performer",
   "grouping", "track", "disc", "year", "originalyear", "genre", "comment",
   "compilation", "beginning", "end", "bitrate", "samplerate", "bitdepth",
   "art_automatic", "art_manual", "cue_path"}

\* C12 amended: operator== and IsSimilar examine disjoint fields, url and
\* beginning against title and artist, and IsMetadataEqual shares beginning
\* with operator== and title and artist with IsSimilar: a change of one field
\* alone changes operator== only for url and beginning, IsSimilar only for
\* title and artist, IsMetadataEqual only for one of its 22 fields, never
\* all three; a change of beginning changes both operator== and
\* IsMetadataEqual, a change of title or artist that is more than a change
\* of case changes both IsMetadataEqual and IsSimilar.
C12_OverlappingFieldSets ==
  \A f \in SetterFields :
    Differ(Val(A), Val(B)) = {f} =>
      LET F == Failing(Val(A), Val(B)) IN
      /\ "operator==" \in F => f \in {"url", "beginning"}
      /\ "IsSimilar" \in F => f \in {"title", "artist"}
      /\ "IsMetadataEqual" \in F => f \in MetadataFields
      /\ Cardinality(F) <= 2
      /\ f = "beginning" => F = {"operator==", "IsMetadataEqual"}
      /\ (f \in {"title", "artist"}
            /\ ~SameIgnoringCase(Val(A)[f], Val(B)[f]))
           => F = {"IsMetadataEqual", "IsSimilar"}

\* C12 witness: the beginning of B alone was changed and operator== was
\* called on the two and returned FALSE, as IsMetadataEqual does.
C12_Witness ==
  /\ Differ(Val(A), Val(B)) = {"beginning"}
  /\ last.op = "operator==" /\ last.h # last.o /\ last.ret = FALSE
  /\ ~IsMetadataEqual(Val(A), Val(B))

\* B was just read from a result set of the given shape.
RowRead(shape) == last.op = "InitFromQuery" /\ last.shape = shape

\* What B would hold had it read the whole stored row.
WholeRowRead ==
  InitFromQuery(last.pre, SqlRow(1, query.b), last.reliable_metadata, 0, cache)

\* The columns of kColumns that assign a member: the first n, and the rest.
FirstColumns(n) == {kColumns[i] : i \in 1..n} \ ProjectionColumns
LaterColumns(n) ==
  {kColumns[i] : i \in (n + 1)..Len(kColumns)} \ ProjectionColumns

\* The fields of the first n columns hold what the row holds for them.
FirstColumnsPopulated ==
  \A c \in FirstColumns(last.n) :
    Val(B)[ColumnField(c)] = WholeRowRead[ColumnField(c)]

\* C13 as claimed: a result set with the first n columns only is read into
\* a fresh Song without error, the first n fields are populated, and every
\* field of a later column holds its default sentinel.
C13_TruncatedAsClaimed ==
  (RowRead("truncated") /\ last.n < Len(kColumns)) =>
    /\ FirstColumnsPopulated
    /\ \A c \in LaterColumns(last.n) :
         Val(B)[ColumnField(c)] = NewPrivate(-1)[ColumnField(c)]

\* C13 amended: the first n fields are populated; every field of a later
\* column other than art_manual holds the value the fresh Song had before the
\* call; art_manual, when its column was not read, is the path of the cached
\* cover if art_automatic is empty and the cache holds a cover for the artist
\* and album, and is empty otherwise.
C13_TruncatedKeepsLater ==
  (RowRead("truncated") /\ last.n < Len(kColumns)) =>
    /\ FirstColumnsPopulated
    /\ \A c \in LaterColumns(last.n) \ {"art_manual"} :
         Val(B)[ColumnField(c)] = last.pre[ColumnField(c)]
    /\ "art_manual" \in LaterColumns(last.n) =>
         Val(B).art_manual =
           (IF /\ Val(B).art_automatic = E
               /\ Sha1CoverHash(Val(B).artist, Val(B).album) \in cache
            THEN CoverPath(Val(B).artist, Val(B).album) ELSE E)

\* C13 witness: the first 10 columns were read, the artist is populated, the
\* cue path is untouched and the cached cover of the artist was adopted.
C13_Witness ==
  /\ RowRead("truncated") /\ last.n = 10
  /\ Val(B).artist = <<"b">>
  /\ Val(B).cue_path = E
  /\ Val(B).art_manual = CoverPath(<<"b">>, E)

\* The columns of the int fields with -1-sentinel semantics, and the value of
\* the Song that each stores.
SentinelColumns ==
  {"track", "disc", "year", "originalyear", "length", "bitrate",
   "samplerate", "bitdepth", "lastplayed", "directory_id", "filesize",
   "mtime", "ctime"}
NullableColumns == {"directory_id", "filesize", "mtime", "ctime"}
Stored(s, c) == IF c = "length" THEN length_nanosec(s) ELSE s[c]

\* C15 as claimed: BindToQuery binds NULL for every -1-sentinel int field
\* that is -1, InitFromQuery reads NULL in those columns as -1, and only
\* playcount and skipcount read NULL as 0.
C15_NullPolicyAsClaimed ==
  /\ query # Nil =>
       \A c \in SentinelColumns :
         Stored(query.of, c) = -1 => isNull(query.b[c])
  /\ RowRead("nulls") =>
       /\ \A c \in SentinelColumns : Stored(Val(B), c) = -1
       /\ Val(B).playcount = 0 /\ Val(B).skipcount = 0
       /\ Val(B).beginning # 0

\* C15 amended: BindToQuery binds NULL for directory_id, filesize, mtime and
\* ctime exactly when the field is -1; for track, disc, year, originalyear,
\* length, bitrate, samplerate, bitdepth and lastplayed it never binds NULL
\* and binds the integer -1 whenever the field is 0 or less. InitFromQuery
\* reads NULL in any of the thirteen columns as -1, and reads NULL as 0 for
\* playcount, skipcount and beginning.
C15_NullPolicy ==
  /\ query # Nil =>
       /\ \A c \in NullableColumns :
            isNull(query.b[c]) <=> Stored(query.of, c) = -1
       /\ \A c \in SentinelColumns \ NullableColumns :
            /\ ~isNull(query.b[c])
            /\ Stored(query.of, c) <= 0 => query.b[c] = QInt(-1)
            /\ Stored(query.of, c) > 0 => query.b[c] = QInt(Stored(query.of, c))
  /\ RowRead("nulls") =>
       /\ \A c \in SentinelColumns : Stored(Val(B), c) = -1
       /\ Val(B).playcount = 0 /\ Val(B).skipcount = 0
       /\ Val(B).beginning = 0

\* C15 witness: a Song with every int field unset was bound, with NULL for
\* filesize and -1 for track, and a row of NULLs was read as -1 and 0.
C15_Witness ==
  /\ RowRead("nulls")
  /\ query.of.track = -1 /\ query.b.track = QInt(-1)
  /\ query.of.filesize = -1 /\ isNull(query.b.filesize)
  /\ Val(B).track = -1 /\ Val(B).playcount = 0

\* C16: when the result set lost or gained a column, every field holds what
\* it held before the call or what the column of its own name holds, never
\* the value of a column with another name (art_manual, which InitArtManual
\* may fill from the cache, aside).
C16_ReadsByName ==
  (RowRead("removed") \/ RowRead("added")) =>
    \A c \in LaterColumns(0) \ {"art_manual"} :
      Val(B)[ColumnField(c)]
        \in {last.pre[ColumnField(c)], WholeRowRead[ColumnField(c)]}

\* C17 as claimed: BindToQuery binds the three projection columns to
\* is_compilation(), effective_albumartist() and effective_originalyear() of
\* the record, and InitFromQuery reads a row into the same record whatever
\* the three columns hold.
C17_ProjectionsAsClaimed ==
  /\ query # Nil =>
       /\ query.b.compilation_effective
            = QInt(IF is_compilation(query.of) THEN 1 ELSE 0)
       /\ query.b.effective_albumartist
            = QStr(effective_albumartist(query.of))
       /\ query.b.effective_originalyear
            = QInt(effective_originalyear(query.of))
  /\ RowRead("projections") => Val(B) = WholeRowRead

\* C17 amended: as claimed, but the column effective_originalyear is bound to
\* effective_originalyear() when that is 1 or more and to -1 otherwise.
C17_WriteOnlyProjections ==
  /\ query # Nil =>
       /\ query.b.compilation_effective
            = QInt(IF is_compilation(query.of) THEN 1 ELSE 0)
       /\ query.b.effective_albumartist
            = QStr(effective_albumartist(query.of))
       /\ query.b.effective_originalyear
            = QInt(IF effective_originalyear(query.of) >= 1
                   THEN effective_originalyear(query.of) ELSE -1)
  /\ RowRead("projections") => Val(B) = WholeRowRead

\* C17 witness: a compilation by override with an album artist was bound,
\* the three columns were overwritten, and the record read has the stored
\* album artist and compilation flag, not the columns' values.
C17_Witness ==
  /\ RowRead("projections")
  /\ query.b.compilation_effective = QInt(1)
  /\ last.row.compilation_effective = QInt(0)
  /\ last.row.effective_albumartist = QStr(<<"z">>)
  /\ Val(B).albumartist = <<"s">> /\ Val(B).compilation = FALSE
  /\ is_compilation(Val(B))

\* The persisted fields the claim exempts, and those ToProtobuf has no
\* message field for.
CompilationOverrides ==
  {"compilation_detected", "compilation_on", "compilation_off"}
NotCarried ==
  {"beginning", "directory_id", "unavailable", "art_manual", "cue_path"}

\* A is serialized and differs from the fresh Song B in field f alone.
SerializedDiffering(f) ==
  pb # Nil /\ origin[B] = "default" /\ Differ(pb.of, Val(B)) = {f}

\* B was read from the message of a Song that differed from it in f alone.
ReadBackDiffering(f) ==
  ReadBackFromWire /\ Differ(last.of, last.pre) = {f}

\* C14 as claimed: for every persisted field but the three compilation
\* overrides, two Songs that differ in that field alone serialize to
\* different messages and InitFromProtobuf restores the field.
C14_WireExposesAsClaimed ==
  \A f \in PersistedFields \ CompilationOverrides :
    /\ SerializedDiffering(f) => pb.m # ToProtobuf(Val(B))
    /\ ReadBackDiffering(f) => Val(B)[f] = last.of[f]

\* C14 amended: that holds for every persisted field but the three
\* compilation overrides and beginning, directory_id, unavailable, art_manual
\* and cue_path. The message has no field for these eight: InitFromProtobuf
\* leaves each but art_manual as the reading Song had it, two Songs that
\* differ in one of them other than beginning serialize to the same message,
\* and two that differ in beginning to messages that differ in
\* length_nanosec alone.
C14_WireExposes ==
  /\ \A f \in PersistedFields \ (CompilationOverrides \cup NotCarried) :
       /\ SerializedDiffering(f) => pb.m # ToProtobuf(Val(B))
       /\ ReadBackDiffering(f) => Val(B)[f] = last.of[f]
  /\ \A f \in CompilationOverrides \cup NotCarried :
       /\ SerializedDiffering(f) =>
            IF f = "beginning"
            THEN Differ(pb.m, ToProtobuf(Val(B))) = {"length_nanosec"}
            ELSE pb.m = ToProtobuf(Val(B))
       /\ (ReadBackDiffering(f) /\ f # "art_manual") =>
            Val(B)[f] = last.pre[f]

\* C14 witness: a Song whose title alone was set, to a word outside ASCII,
\* was serialized and read back with that title.
C14_Witness ==
  /\ ReadBackDiffering("title")
  /\ last.of.title = <<"u">>
  /\ pb.m.title = <<"c3", "bc">>
  /\ Val(B).title = <<"u">>

\* C18: effective_album() is the album if that is non-empty and the title
\* otherwise, effective_albumartist() the album artist if non-empty and the
\* artist otherwise, effective_originalyear() the original year if that is 0
\* or more and the year otherwise, each as the fields are at the call.
C18_EffectiveGetters ==
  /\ last.op = "effective_album" =>
       last.ret = (IF Val(A).album # E THEN Val(A).album ELSE Val(A).title)
  /\ last.op = "effective_albumartist" =>
       last.ret = (IF Val(A).albumartist # E
                   THEN Val(A).albumartist ELSE Val(A).artist)
  /\ last.op = "effective_originalyear" =>
       last.ret = (IF Val(A).originalyear >= 0
                   THEN Val(A).originalyear ELSE Val(A).year)

\* C18 witness: after the setters, effective_originalyear() returned the
\* original year 0 of a Song whose year is 1.
C18_Witness ==
  /\ last.op = "effective_originalyear"
  /\ Val(A).originalyear = 0 /\ Val(A).year = 1
  /\ last.ret = 0

\* C19: IsEditable() is TRUE exactly when the Song is valid, has a non-empty
\* url, a filetype other than Unknown and no cue path; is_collection_song()
\* is TRUE exactly when the filetype is not CD audio and the id is not -1.
C19_EditableAndCollection ==
  /\ last.op = "IsEditable" =>
       last.ret = (/\ Val(A).valid = TRUE
                   /\ Val(A).url # <<>>
                   /\ Val(A).filetype # Type_Unknown
                   /\ Val(A).cue_path = <<>>)
  /\ last.op = "is_collection_song" =>
       last.ret = (Val(A).filetype # Type_Cdda /\ Val(A).id # -1)

\* C19 witness: a CD track with an id was asked whether it is a collection
\* song, and is not one, though it is editable.
C19_Witness ==
  /\ last.op = "is_collection_song"
  /\ Val(A).filetype = Type_Cdda /\ Val(A).id = 1
  /\ last.ret = FALSE
  /\ IsEditable(Val(A))

\* The device codecs that the switch of InitFromMTP has an entry for.
TableCodecs ==
  {"LIBMTP_FILETYPE_WAV", "LIBMTP_FILETYPE_MP3", "LIBMTP_FILETYPE_WMA",
   "LIBMTP_FILETYPE_OGG", "LIBMTP_FILETYPE_MP4", "LIBMTP_FILETYPE_AAC",
   "LIBMTP_FILETYPE_FLAC", "LIBMTP_FILETYPE_MP2", "LIBMTP_FILETYPE_M4A"}

\* C20: InitFromMTP gives the Unknown filetype to every device codec that
\* has no entry in its table, and a record filetype that ToMTP wrote as a
\* codec other than undefined audio is the filetype InitFromMTP reads back.
C20_MtpFiletypeRoundTrip ==
  last.op = "InitFromMTP" =>
    /\ last.codec \notin TableCodecs => Val(B).filetype = Type_Unknown
    /\ (last.from = "ToMTP" /\ last.codec # "LIBMTP_FILETYPE_UNDEF_AUDIO")
         => Val(B).filetype = last.of.filetype

\* C24: IsOnSameAlbum is reflexive and symmetric: a Song is on its own
\* album, and a.IsOnSameAlbum(b) returns what b.IsOnSameAlbum(a) returns.
C24_SameAlbumReflexiveSymmetric ==
  last.op = "IsOnSameAlbum" =>
    /\ last.h = last.o => last.ret = TRUE
    /\ last.ret = IsOnSameAlbum(Val(last.o), Val(last.h))

\* C24 witness: two compilations with one album and different album
\* artists were compared, and are on the same album by the album alone.
C24_Witness ==
  /\ last.op = "IsOnSameAlbum" /\ last.h # last.o
  /\ is_compilation(Val(A)) /\ is_compilation(Val(B))
  /\ Val(A).album = Val(B).album
  /\ effective_albumartist(Val(A)) # effective_albumartist(Val(B))
  /\ Val(A).cue_path # Val(B).cue_path
  /\ last.ret = TRUE

\* art_manual and art_automatic of B as the adapter populated them, before
\* its closing InitArtManual: both from the row, or art_manual from the fresh
\* Song and art_automatic from the message.
PopulatedArt ==
  IF last.op = "InitFromQuery"
  THEN [art_manual |-> last.of.art_manual,
        art_automatic |-> last.of.art_automatic]
  ELSE [art_manual |-> last.pre.art_manual,
        art_automatic |-> last.of.art_automatic]

\* C21: at the end of InitFromQuery and of InitFromProtobuf art_manual is
\* the cache path of the hash of (artist, album) exactly when art_manual and
\* art_automatic were both empty and the file exists; otherwise, with either
\* non-empty, "(unset)" and "(embedded)" included, or with no file, both are
\* as they were populated.
C21_CoverCacheAdoption ==
  (ReadBackFromRow \/ ReadBackFromWire) =>
    LET adopt == /\ PopulatedArt.art_manual = <<>>
                 /\ PopulatedArt.art_automatic = <<>>
                 /\ Sha1CoverHash(Val(B).artist, Val(B).album) \in cache
    IN /\ Val(B).art_automatic = PopulatedArt.art_automatic
       /\ Val(B).art_manual =
            (IF adopt THEN CoverPath(Val(B).artist, Val(B).album)
             ELSE PopulatedArt.art_manual)
       /\ ~adopt => Val(B).art_manual # CoverPath(Val(B).artist, Val(B).album)

\* C21 witness: a row with the embedded-cover sentinel and no manual cover
\* was read beside a cache that holds a cover for its artist, and no cover
\* was adopted.
C21_Witness ==
  /\ ReadBackFromRow
  /\ last.of.art_automatic = kEmbeddedCover /\ last.of.art_manual = <<>>
  /\ Sha1CoverHash(Val(B).artist, Val(B).album) \in cache
  /\ Val(B).art_manual = <<>> /\ Val(B).art_automatic = kEmbeddedCover

\* The record field that MergeFromSimpleMetaBundle should write from the
\* bundle member f: the like-named one.
LikeNamed(f) ==
  CASE f = "length"  -> "end"
    [] f = "tracknr" -> "track"
    [] OTHER         -> f

\* What the like-named field holds once the non-empty bundle member f is
\* merged into the Song pre.
Merged(pre, bundle, f) ==
  CASE f \in {"title", "artist", "album", "comment", "genre"} -> bundle[f]
    [] f = "length" -> pre.beginning + QStringToInt(bundle[f])
    [] OTHER        -> QStringToInt(bundle[f])

\* C22: MergeFromSimpleMetaBundle changes nothing when init_from_file is set
\* or the url scheme is "file"; otherwise valid becomes TRUE, each of the
\* eleven like-named fields is overwritten when the bundle's value is
\* non-empty and kept when it is empty, and no other field changes: a bundle
\* bitdepth changes bitdepth and not samplerate.
C22_MergeFrame ==
  last.op = "MergeFromSimpleMetaBundle" =>
    IF last.pre.init_from_file
         \/ (last.pre.url # <<>> /\ Head(last.pre.url) = "file:")
    THEN Val(A) = last.pre
    ELSE /\ Val(A).valid = TRUE
         /\ \A f \in BundleFields :
              Val(A)[LikeNamed(f)] =
                (IF last.bundle[f] # <<>>
                 THEN Merged(last.pre, last.bundle, f)
                 ELSE last.pre[LikeNamed(f)])
         /\ \A g \in DOMAIN last.pre
                 \ ({"valid"} \cup {LikeNamed(f) : f \in BundleFields}) :
              Val(A)[g] = last.pre[g]

\* C23: the hashes agree with their predicates: Songs that operator== calls
\* equal have the same qHash, Songs that IsSimilar calls similar have the
\* same HashSimilar, and each hash is the same for Songs with the same url
\* and beginning, respectively the same lower-cased title and artist.
C23_HashesAgree ==
  /\ (last.op = "operator==" /\ last.ret) =>
       qHash(Val(last.h)) = qHash(Val(last.o))
  /\ (last.op = "IsSimilar" /\ last.ret) =>
       HashSimilar(Val(last.h)) = HashSimilar(Val(last.o))
  /\ last.op = "qHash" =>
       \A o \in {A, B} :
         (Val(o).url = Val(last.h).url
            /\ Val(o).beginning = Val(last.h).beginning)
           => qHash(Val(o)) = last.ret
  /\ last.op = "HashSimilar" =>
       \A o \in {A, B} :
         (toLower(Val(o).title) = toLower(Val(last.h).title)
            /\ toLower(Val(o).artist) = toLower(Val(last.h).artist))
           => HashSimilar(Val(o)) = last.ret

=============================================================================
